---- MODULE Spec2Model ----
(***************************************************************************)
(* Skill-assessment interview workflow of interview_assistant:             *)
(* api/interviews.py (start, get-questions, submit-response, results),     *)
(* services/interview_service.py, ml/response_evaluator.py,                *)
(* ml/question_generator.py, ml/skill_card_generator.py, database.py.      *)
(*                                                                         *)
(* Text is modelled as a sequence of one-character strings, JSON objects   *)
(* as records / functions from the keys present, SQL NULL and Python None  *)
(* as the empty option None.  Floats are kept as exact fractions.          *)
(***************************************************************************)
EXTENDS Integers, Sequences, FiniteSets, TLC

VARIABLES
    interviews,            \* table interviews: row id = index
    interview_questions,   \* table interview_questions: row id = index
    now,                   \* wall clock in seconds (datetime('now'))
    CARD_GENERATION_AVAILABLE, \* module flag of api/interviews.py; card_generator is None iff FALSE
    gen_calls,             \* per interview: calls of generate_cards_from_interview_results
    arg,                   \* argument of the pure function under test (pure-function specifications)
    requests,              \* requests in flight (concurrent specification): position and locals
    ret                    \* the last request with the response it got

vars == <<interviews, interview_questions, now, CARD_GENERATION_AVAILABLE, gen_calls, arg, requests, ret>>

-----------------------------------------------------------------------------
(* Bounds *)

MaxLen == 5          \* longest skill string given to parse_skills
MaxInterviews == 1   \* rows of table interviews
MaxRows == 2         \* rows of table interview_questions
MaxClock == 1        \* seconds the clock may advance
MaxGenCalls == 2     \* card generator calls counted per interview
MaxQPS == 2          \* largest questions_per_skill requested
ScoreScale == 100    \* scores are the multiples of 1/ScoreScale
MaxScore == 11       \* largest score given to the score-to-star mapping
MaxRequests == 2     \* requests served at the same time
MaxSkills == 2       \* skills whose averages enter one overall rating

-----------------------------------------------------------------------------
(* Text *)

Chars == {"S", "s", "E", " ", ","}
Whitespace == {" "}

RECURSIVE StringsUpTo(_)
StringsUpTo(n) ==
    IF n = 0 THEN {<<>>}
    ELSE LET shorter == StringsUpTo(n - 1)
         IN  shorter \cup {Append(s, c) : s \in {t \in shorter : Len(t) = n - 1}, c \in Chars}

\* str.lower() on one character
LowerChar(c) ==
    CASE c = "S" -> "s"
      [] c = "E" -> "e"
      [] OTHER -> c

\* str.lower()
lower(s) == [i \in 1..Len(s) |-> LowerChar(s[i])]

\* str.strip(): drops leading and trailing whitespace
RECURSIVE lstrip(_)
lstrip(s) == IF s # <<>> /\ Head(s) \in Whitespace THEN lstrip(Tail(s)) ELSE s

RECURSIVE rstrip(_)
rstrip(s) ==
    IF s # <<>> /\ s[Len(s)] \in Whitespace THEN rstrip(SubSeq(s, 1, Len(s) - 1)) ELSE s

strip(s) == rstrip(lstrip(s))

\* str.split(sep): always at least one piece
RECURSIVE split(_, _)
split(s, sep) ==
    IF \A i \in 1..Len(s) : s[i] # sep
    THEN <<s>>
    ELSE LET i == CHOOSE k \in 1..Len(s) : s[k] = sep /\ \A j \in 1..(k - 1) : s[j] # sep
         IN  <<SubSeq(s, 1, i - 1)>> \o split(SubSeq(s, i + 1, Len(s)), sep)

\* [skill.strip() for skill in skills.split(',') if skill.strip()]
RECURSIVE StripNonEmpty(_)
StripNonEmpty(pieces) ==
    IF pieces = <<>> THEN <<>>
    ELSE IF strip(Head(pieces)) # <<>>
         THEN <<strip(Head(pieces))>> \o StripNonEmpty(Tail(pieces))
         ELSE StripNonEmpty(Tail(pieces))

SplitSkills(skills) == StripNonEmpty(split(skills, ","))

GeneralSkills == <<"g", "e", "n", "e", "r", "a", "l", " ", "s", "k", "i", "l", "l", "s">>

\* the seen-set loop of parse_skills: keeps the first skill of every lower-cased name
RECURSIVE UniqueSkills(_, _, _)
UniqueSkills(skills, seen, unique_skills) ==
    IF skills = <<>> THEN unique_skills
    ELSE IF lower(Head(skills)) \notin seen
         THEN UniqueSkills(Tail(skills), seen \cup {lower(Head(skills))},
                           Append(unique_skills, Head(skills)))
         ELSE UniqueSkills(Tail(skills), seen, unique_skills)

\* a plausible slip: the seen-set is keyed by the skill as written, not lower-cased
RECURSIVE UniqueSkillsCaseSensitive(_, _, _)
UniqueSkillsCaseSensitive(skills, seen, unique_skills) ==
    IF skills = <<>> THEN unique_skills
    ELSE IF Head(skills) \notin seen
         THEN UniqueSkillsCaseSensitive(Tail(skills), seen \cup {Head(skills)},
                                        Append(unique_skills, Head(skills)))
         ELSE UniqueSkillsCaseSensitive(Tail(skills), seen, unique_skills)

DedupeSkillsCaseSensitive(skills) == UniqueSkillsCaseSensitive(skills, {}, <<>>)

DedupeSkills(skills) == UniqueSkills(skills, {}, <<>>)

\* QuestionGenerator.parse_skills
parse_skills(skills_input) ==
    IF skills_input = <<>>
    THEN <<GeneralSkills>>
    ELSE DedupeSkills(SplitSkills(skills_input))

-----------------------------------------------------------------------------
(* Values *)

\* a nullable column or JSON value: None is NULL / null, Some(v) a value
None == <<>>
Some(v) == <<v>>

\* dict.get(key, default)
Get(doc, key, default) == IF key \in DOMAIN doc THEN doc[key] ELSE default

\* doc[key] = value
Put(doc, key, value) == (key :> value) @@ doc

EmptyDoc == <<>>

\* column interviews.feedback: NULL, the error text of line 173, or a JSON document
FbNull == [type |-> "null"]
FbText == [type |-> "text"]
FbJson(doc) == [type |-> "json", doc |-> doc]

\* `if interview["feedback"]: try: json.loads(...) except: {}`
LoadFeedback(feedback) == IF feedback.type = "json" THEN feedback.doc ELSE EmptyDoc

\* Python's seq[:n]: how many items the slice keeps of a list of length len
SliceLen(len, n) ==
    IF n >= 0 THEN (IF len < n THEN len ELSE n)
    ELSE (IF len + n > 0 THEN len + n ELSE 0)

\* range(n) as a sequence of 0-based indices
Range(n) == IF n > 0 THEN [i \in 1..n |-> i - 1] ELSE <<>>

RECURSIVE SumSeq(_)
SumSeq(s) == IF s = <<>> THEN 0 ELSE Head(s) + SumSeq(Tail(s))

RECURSIVE Gcd(_, _)
Gcd(a, b) == IF b = 0 THEN a ELSE Gcd(b, a % b)

\* a float kept exactly, in lowest terms: num / den, num >= 0, den > 0
Frac(num, den) ==
    LET g == Gcd(num, den)
    IN  [num |-> num \div g, den |-> den \div g]

\* Python's round(x): to the nearest integer, a tie to the even one
PyRound(x) ==
    LET q == x.num \div x.den
        r == x.num % x.den
    IN  IF 2 * r < x.den THEN q
        ELSE IF 2 * r > x.den THEN q + 1
        ELSE IF q % 2 = 0 THEN q ELSE q + 1

\* Python's round(x, 1), for the averages of at most MaxRows integer scores
\* (none of them lies halfway between two tenths)
PyRound1(x) == Frac(PyRound([num |-> 10 * x.num, den |-> x.den]), 10)

-----------------------------------------------------------------------------
(* Scoring policy: api/interviews.py convert_score_to_stars *)

\* the comparison of every threshold made exclusive
convert_score_to_stars_exclusive(score) ==
    IF score.num > 9 * score.den THEN 5
    ELSE IF score.num > 7 * score.den THEN 4
    ELSE IF score.num > 5 * score.den THEN 3
    ELSE IF score.num > 3 * score.den THEN 2
    ELSE 1

convert_score_to_stars(score) ==
    IF score.num >= 9 * score.den THEN 5
    ELSE IF score.num >= 7 * score.den THEN 4
    ELSE IF score.num >= 5 * score.den THEN 3
    ELSE IF score.num >= 3 * score.den THEN 2
    ELSE 1

\* ml/question_generator.py QuestionGenerator._convert_score_to_stars
QuestionGenerator_convert_score_to_stars(score) ==
    IF score.num >= 9 * score.den THEN 5
    ELSE IF score.num >= 7 * score.den THEN 4
    ELSE IF score.num >= 5 * score.den THEN 3
    ELSE IF score.num >= 3 * score.den THEN 2
    ELSE 1

\* the boundary between Advanced and Intermediate moved up by one
QuestionGenerator_determine_proficiency_level_shifted(score) ==
    IF score.num >= 9 * score.den THEN "Expert"
    ELSE IF score.num >= 8 * score.den THEN "Advanced"
    ELSE IF score.num >= 5 * score.den THEN "Intermediate"
    ELSE IF score.num >= 3 * score.den THEN "Beginner"
    ELSE "Novice"

\* ml/question_generator.py QuestionGenerator._determine_proficiency_level
QuestionGenerator_determine_proficiency_level(score) ==
    IF score.num >= 9 * score.den THEN "Expert"
    ELSE IF score.num >= 7 * score.den THEN "Advanced"
    ELSE IF score.num >= 5 * score.den THEN "Intermediate"
    ELSE IF score.num >= 3 * score.den THEN "Beginner"
    ELSE "Novice"

\* Python's round(x, 2), for the averages used here (multiples of 1/2 and their
\* means over at most MaxSkills skills: none lies halfway between two hundredths
\* in binary floating point in a way that changes the star)
PyRound2(x) == Frac(PyRound([num |-> 100 * x.num, den |-> x.den]), 100)

\* sum() of a list of floats
RECURSIVE SumFracs(_)
SumFracs(s) ==
    IF s = <<>> THEN Frac(0, 1)
    ELSE LET h == Head(s)
             t == SumFracs(Tail(s))
         IN  Frac(h.num * t.den + t.num * h.den, h.den * t.den)

\* QuestionGenerator.calculate_individual_skill_ratings, lines 384-401: the
\* overall rating, from the average_score that lines 347 and 364 give each skill
\* (average_scores holds the averages before the rounding of line 364)
QuestionGenerator_overall_rating(average_scores) ==
    LET stored == [i \in DOMAIN average_scores |-> PyRound2(average_scores[i])]
        all_skill_scores == SelectSeq(stored, LAMBDA a : a.num > 0)
        total == SumFracs(all_skill_scores)
        overall_score == IF all_skill_scores # <<>>
                         THEN Frac(total.num, total.den * Len(all_skill_scores))
                         ELSE Frac(0, 1)
    IN  [average_score |-> PyRound2(overall_score),
         star_rating |-> QuestionGenerator_convert_score_to_stars(overall_score),
         proficiency_level |-> QuestionGenerator_determine_proficiency_level(overall_score),
         skills_count |-> Len(average_scores)]

-----------------------------------------------------------------------------
(* Question planning: ml/question_generator.py, api/interviews.py *)

\* what the question-generation call can answer for one skill
GenReplyError == [kind |-> "error"]
GenReplyList(n) == [kind |-> "list", len |-> n]
GenReplyNonList == [kind |-> "non_list"]
GenReplyLines(n) == [kind |-> "lines", len |-> n]
GenReplyFencedList(n) == [kind |-> "fenced_list", len |-> n]
GenReplyUnparseable == [kind |-> "text"]
GenReplyRaises == [kind |-> "raises"]

GenReplies == {GenReplyError, GenReplyList(MaxQPS - 1), GenReplyList(MaxQPS + 1)}

\* the question objects with enumerate's 0-based index as skill_index
SkillQuestionsZeroBased(skill, n) ==
    [i \in 1..n |-> [skill |-> skill, question_type |-> "skill_specific", skill_index |-> i - 1]]

\* the question objects built at lines 180-187, 200-207, 222-229 and 254-262
SkillQuestions(skill, n) ==
    [i \in 1..n |-> [skill |-> skill, question_type |-> "skill_specific", skill_index |-> i]]

\* QuestionGenerator._fallback_skill_questions
fallback_skill_questions(skill, questions_per_skill) ==
    SkillQuestions(skill, Len(Range(questions_per_skill)))

\* a list of any length accepted as it is
generate_skill_specific_questions_any_length(skill, questions_per_skill, reply) ==
    IF reply.kind \in {"error", "raises"}
    THEN fallback_skill_questions(skill, questions_per_skill)
    ELSE IF reply.kind \in {"list", "fenced_list", "lines"}
    THEN SkillQuestions(skill, SliceLen(reply.len, questions_per_skill))
    ELSE fallback_skill_questions(skill, questions_per_skill)

\* QuestionGenerator.generate_skill_specific_questions
generate_skill_specific_questions(skill, questions_per_skill, reply) ==
    IF reply.kind \in {"error", "raises"}
    THEN fallback_skill_questions(skill, questions_per_skill)
    ELSE IF reply.kind \in {"list", "fenced_list", "lines"}
            /\ reply.len >= questions_per_skill
    THEN SkillQuestions(skill, SliceLen(reply.len, questions_per_skill))
    ELSE fallback_skill_questions(skill, questions_per_skill)

\* the loop of generate_skill_based_questions, lines 123-139
RECURSIVE PlanSkills(_, _, _, _, _, _)
PlanSkills(skill_list, k, questions_per_skill, replies, all_questions, skill_question_map) ==
    IF k > Len(skill_list)
    THEN [all_questions |-> all_questions, skill_question_map |-> skill_question_map]
    ELSE LET skill == skill_list[k]
             skill_questions ==
                 generate_skill_specific_questions(skill, questions_per_skill, replies[k])
             start_index == Len(all_questions)
             extended == all_questions \o skill_questions
             end_index == Len(extended)
         IN  PlanSkills(skill_list, k + 1, questions_per_skill, replies, extended,
                        Put(skill_question_map, skill,
                            [start_index |-> start_index,
                             end_index |-> end_index,
                             question_count |-> questions_per_skill,
                             questions_completed |-> 0]))

\* the rows inserted at lines 142-155 for interview_id
QuestionRows(interview_id, all_questions) ==
    [i \in 1..Len(all_questions) |->
        [interview_id |-> interview_id,
         question_type |-> all_questions[i].skill,
         response |-> None,
         evaluation |-> [skill |-> all_questions[i].skill,
                         skill_index |-> all_questions[i].skill_index,
                         global_question_order |-> i],
         score |-> None]]

\* skills_metadata, lines 158-163
SkillsMetadata(skill_list, questions_per_skill, plan) ==
    [skills_assessed |-> skill_list,
     questions_per_skill |-> questions_per_skill,
     skill_question_map |-> plan.skill_question_map,
     total_questions |-> Len(plan.all_questions)]

\* SELECT id FROM interviews ORDER BY created_at DESC LIMIT 1: created_at has a
\* resolution of one second and the order among equal keys is not specified
LatestInterviews(ivs) ==
    {i \in DOMAIN ivs : \A j \in DOMAIN ivs : ivs[j].created_at <= ivs[i].created_at}

-----------------------------------------------------------------------------
(* Response evaluation: ml/response_evaluator.py, services/interview_service.py *)

\* a Python call either returns a value or raises
Returned(v) == [raised |-> FALSE, value |-> v]
Raised == [raised |-> TRUE]

\* a Python value with its type: the candidate's text (known by its word count,
\* len(response.split())) or the dict that GroqClient.generate_response returns
StrValue(words) == [type |-> "str", words |-> words]

\* replies of GroqClient.generate_response to the evaluation prompt:
\*   error         {"error": ...} (groq_client.py lines 73, 92, 98, 101)
\*   object        content is a JSON object with the given fields
\*   fenced_object content is text holding a ```json block with a JSON object
\*   non_object    content is JSON but no object (a list, a number)
\*   unparseable   content is neither JSON nor holds a parseable fenced block
\*   malformed     a reply without choices[0].message.content
EvalReplyError == [type |-> "dict", kind |-> "error"]
EvalReplyObject(fields) == [type |-> "dict", kind |-> "object", fields |-> fields]
EvalReplyFenced(fields) == [type |-> "dict", kind |-> "fenced_object", fields |-> fields]
EvalReplyNonObject == [type |-> "dict", kind |-> "non_object"]
EvalReplyUnparseable == [type |-> "dict", kind |-> "unparseable"]
EvalReplyMalformed == [type |-> "dict", kind |-> "malformed"]

\* the length buckets of _default_evaluation, lines 137-146
HeuristicScore(response_len) ==
    IF response_len < 10 THEN 2
    ELSE IF response_len < 25 THEN 4
    ELSE IF response_len < 50 THEN 6
    ELSE IF response_len < 100 THEN 7
    ELSE 8

\* ResponseEvaluator._default_evaluation: response.split() needs a str
default_evaluation(response, raw_llm_response) ==
    IF response.type # "str"
    THEN Raised
    ELSE Returned([score |-> Some(HeuristicScore(response.words)),
                   strengths |-> "Response provided",
                   weaknesses |-> "Unable to perform detailed analysis",
                   feedback |-> "Basic evaluation",
                   error |-> "LLM evaluation failed",
                   raw_llm_response |-> raw_llm_response])

\* a variant that sets the four fields to their defaults whether or not the
\* payload has them
EnsureRequiredFieldsOverwriting(result) ==
    [k \in DOMAIN result \cup {"score", "strengths", "weaknesses", "feedback"} |->
        CASE k = "score" -> Some(5)
          [] k = "strengths" -> "[]"
          [] k = "weaknesses" -> "[]"
          [] k = "feedback" -> "No detailed feedback available."
          [] OTHER -> result[k]]

\* lines 80-87 and 100-107: the required fields that are missing get their defaults
EnsureRequiredFields(result) ==
    [k \in DOMAIN result \cup {"score", "strengths", "weaknesses", "feedback"} |->
        IF k \in DOMAIN result THEN result[k]
        ELSE CASE k = "score" -> Some(5)
               [] k = "strengths" -> "[]"
               [] k = "weaknesses" -> "[]"
               [] OTHER -> "No detailed feedback available."]

\* which value the name `response` holds where _default_evaluation is called
\* (lines 71, 115, 119): line 67 has rebound it to the reply of the LLM call
ResponseAtFallback(response, llm_reply) == llm_reply

\* the body of the try block, lines 66-115
EvaluateTry(response, llm_reply) ==
    CASE llm_reply.kind = "error" ->
            default_evaluation(ResponseAtFallback(response, llm_reply), "")
      [] llm_reply.kind = "malformed" -> Raised                \* KeyError, line 73
      [] llm_reply.kind \in {"object", "fenced_object"} ->
            Returned(EnsureRequiredFields(llm_reply.fields))
      [] llm_reply.kind = "non_object" -> Raised               \* TypeError, lines 80-81
      [] OTHER -> Raised    \* line 114 reads e, which no handler has bound: UnboundLocalError

\* ResponseEvaluator.evaluate_response: whatever the try block raises reaches the
\* handler of line 117, which calls _default_evaluation once more
evaluate_response(response, llm_reply) ==
    LET tried == EvaluateTry(response, llm_reply)
    IN  IF tried.raised
        THEN default_evaluation(ResponseAtFallback(response, llm_reply), "")
        ELSE tried

\* InterviewService.evaluate_skill_response
evaluate_skill_response(response, skill, llm_reply) ==
    LET evaluated == evaluate_response(response, llm_reply)
    IN  IF evaluated.raised
        THEN [success |-> FALSE,
              evaluation |-> [score |-> Some(5),
                              feedback |-> "Unable to evaluate response",
                              assessed_skill |-> skill,
                              skill_specific |-> TRUE]]
        ELSE [success |-> TRUE,
              evaluation |-> Put(Put(evaluated.value, "assessed_skill", skill),
                                 "skill_specific", TRUE)]

-----------------------------------------------------------------------------
(* Skill rating and interview completion: api/interviews.py *)

\* the rows of one interview (WHERE interview_id = ?), in id order
RowsOfInterview(rows, interview_id) ==
    SelectSeq(rows, LAMBDA q : q.interview_id = interview_id)

\* ... AND question_type = ?
RowsOfSkill(rows, interview_id, skill) ==
    SelectSeq(rows, LAMBDA q : q.interview_id = interview_id /\ q.question_type = skill)

\* ... AND response IS NOT NULL
Answered(rows) == SelectSeq(rows, LAMBDA q : q.response # None)

\* [q["score"] for q in skill_questions if q["score"] is not None]
NonNullScores(rows) ==
    LET scored == SelectSeq(rows, LAMBDA q : q.score # None)
    IN  [i \in 1..Len(scored) |-> scored[i].score[1]]

\* q["score"] or 0, for every row
ScoresOrZero(rows) ==
    [i \in 1..Len(rows) |-> IF rows[i].score = None THEN 0 ELSE rows[i].score[1]]

\* check_and_update_skill_rating: the dict it returns; `store` tells whether
\* store_skill_rating was called (with star_rating and stored_average)
check_and_update_skill_rating(rows, interview_id, skill) ==
    LET skill_questions == Answered(RowsOfSkill(rows, interview_id, skill))
        total_skill_questions == Len(RowsOfSkill(rows, interview_id, skill))
        answered_skill_questions == Len(skill_questions)
        scores == NonNullScores(skill_questions)
    IN  IF answered_skill_questions = total_skill_questions
           /\ answered_skill_questions > 0
           /\ scores # <<>>
        THEN LET avg_score == Frac(SumSeq(scores), Len(scores))
             IN  [store |-> TRUE,
                  skill |-> skill,
                  completed |-> TRUE,
                  star_rating |-> convert_score_to_stars(avg_score),
                  stored_average |-> avg_score,
                  average_score |-> PyRound1(avg_score),
                  questions_answered |-> answered_skill_questions]
        ELSE [store |-> FALSE,
              skill |-> skill,
              completed |-> FALSE,
              questions_answered |-> answered_skill_questions,
              questions_total |-> total_skill_questions]

\* store_skill_rating: read the feedback document, set skill_ratings[skill], write it
\* back (the rating's completed_at, a timestamp nothing reads, is left out)
store_skill_rating(ivs, interview_id, skill, star_rating, avg_score) ==
    LET feedback_data == LoadFeedback(ivs[interview_id].feedback)
        skill_ratings == Get(feedback_data, "skill_ratings", EmptyDoc)
        rating == [star_rating |-> star_rating, average_score |-> avg_score]
    IN  [ivs EXCEPT ![interview_id].feedback =
            FbJson(Put(feedback_data, "skill_ratings", Put(skill_ratings, skill, rating)))]

\* a plausible slip: an off-by-one in the completion check
InterviewProgressOffByOne(rows, interview_id) ==
    LET all_questions == Len(RowsOfInterview(rows, interview_id))
        answered_questions == Len(Answered(RowsOfInterview(rows, interview_id)))
    IN  [answered |-> answered_questions,
         total |-> all_questions,
         completed |-> (all_questions <= answered_questions + 1)]

\* lines 298-308: the counts of the completion check
InterviewProgress(rows, interview_id) ==
    LET all_questions == Len(RowsOfInterview(rows, interview_id))
        answered_questions == Len(Answered(RowsOfInterview(rows, interview_id)))
    IN  [answered |-> answered_questions,
         total |-> all_questions,
         completed |-> (all_questions = answered_questions)]

\* a plausible slip: the status is rewritten on every submission, from the
\* number of questions that have a score
MarkCompletedFromScores(ivs, rows, interview_id, at) ==
    LET all_questions == Len(RowsOfInterview(rows, interview_id))
        scored == Len(NonNullScores(RowsOfInterview(rows, interview_id)))
    IN  IF all_questions = scored
        THEN [ivs EXCEPT ![interview_id].status = "completed",
                         ![interview_id].completed_at = Some(at)]
        ELSE [ivs EXCEPT ![interview_id].status = "active"]

\* lines 310-315: UPDATE interviews SET status = 'completed', completed_at = now
MarkCompleted(ivs, rows, interview_id, at) ==
    IF InterviewProgress(rows, interview_id).completed
    THEN [ivs EXCEPT ![interview_id].status = "completed",
                     ![interview_id].completed_at = Some(at)]
    ELSE ivs

-----------------------------------------------------------------------------
(* Results and card generation: api/interviews.py *)

\* lines 649-657: the star ratings stored in the feedback document
StoredStarRatings(feedback_data) ==
    LET stored == Get(feedback_data, "skill_ratings", EmptyDoc)
    IN  [skill \in DOMAIN stored |-> stored[skill].star_rating]

\* lines 660-679: ratings computed on the fly from the answered rows
OnTheFlyStarRatings(rows, interview_id) ==
    LET answered == Answered(RowsOfInterview(rows, interview_id))
        skills == {answered[i].question_type : i \in 1..Len(answered)}
    IN  [skill \in skills |->
            LET scores == ScoresOrZero(RowsOfSkill(answered, interview_id, skill))
            IN  convert_score_to_stars(Frac(SumSeq(scores), Len(scores)))]

\* lines 645-679: the stored star ratings, or else those computed on the fly
SkillRatings(rows, interview_id, feedback_data) ==
    LET stored == StoredStarRatings(feedback_data)
    IN  IF DOMAIN stored # {} THEN stored ELSE OnTheFlyStarRatings(rows, interview_id)

\* sum(skill_ratings.values())
RECURSIVE SumValues(_)
SumValues(f) ==
    IF DOMAIN f = {} THEN 0
    ELSE LET k == CHOOSE x \in DOMAIN f : TRUE
         IN  f[k] + SumValues([x \in DOMAIN f \ {k} |-> f[x]])

\* lines 684-689
OverallStars(skill_ratings) ==
    IF DOMAIN skill_ratings # {}
    THEN PyRound(Frac(SumValues(skill_ratings), Cardinality(DOMAIN skill_ratings)))
    ELSE 1

\* one matching file taken as the card of every rated skill
GeneratedCardsAnyFile(skill_ratings, found) ==
    {[success |-> TRUE, skill |-> skill] :
        skill \in IF found # {} THEN DOMAIN skill_ratings ELSE {}}

\* the entries appended at lines 530-538 (a file was found) and 542-547 (none was);
\* of each entry the model keeps the skill and the success flag, not the star
\* rating, rarity, description and file name derived from the rating
GeneratedCards(skill_ratings, found) ==
    {[success |-> TRUE, skill |-> skill] : skill \in DOMAIN skill_ratings \cap found}

FailedCards(skill_ratings, found) ==
    {[success |-> FALSE, skill |-> skill] : skill \in DOMAIN skill_ratings \ found}

\* card_mapping, lines 468-473, 521-528, 550 (generated_at, a timestamp nothing
\* reads, is left out here and in the stored block)
CardMapping(interview_id, skill_ratings, found) ==
    [interview_id |-> interview_id,
     total_cards |-> Cardinality(GeneratedCards(skill_ratings, found)),
     cards |-> DOMAIN skill_ratings \cap found]

\* manual_results, lines 567-578
ManualResults(interview_id, skill_ratings, found) ==
    [success |-> TRUE,
     cards_generated |-> TRUE,
     success_count |-> Cardinality(GeneratedCards(skill_ratings, found)),
     failure_count |-> Cardinality(FailedCards(skill_ratings, found)),
     total_skills |-> Cardinality(DOMAIN skill_ratings),
     generated_cards |-> GeneratedCards(skill_ratings, found),
     failed_cards |-> FailedCards(skill_ratings, found),
     interview_id |-> interview_id]

\* the block stored under "card_generation", lines 595-599
CardGenerationBlock(interview_id, skill_ratings, found) ==
    [results |-> ManualResults(interview_id, skill_ratings, found),
     mapping_file_content |-> CardMapping(interview_id, skill_ratings, found)]

\* what auto_generate_skill_cards returns after storing the block, lines 606-614
CardGenerationSummary(interview_id, skill_ratings, found) ==
    LET manual_results == ManualResults(interview_id, skill_ratings, found)
    IN  [cards_generated |-> TRUE,
         success_count |-> manual_results.success_count,
         failure_count |-> manual_results.failure_count,
         generated_cards |-> manual_results.generated_cards,
         mapping_content |-> CardMapping(interview_id, skill_ratings, found)]

NotGenerated(reason) == [cards_generated |-> FALSE, reason |-> reason]

\* auto_generate_skill_cards.  found: the skills for which a card file is matched
\* afterwards; failure: "none", "before" (an exception before the generator is
\* called: the directory), "after" (one after it: the mapping file, the store).
\* Gives the returned dict, the interviews table and whether the generator was called.
auto_generate_skill_cards(ivs, interview_id, skill_ratings, available, found, failure) ==
    IF ~available
    THEN [info |-> NotGenerated("Card generation not available - import failed"),
          interviews |-> ivs, called |-> FALSE]
    ELSE IF failure = "before"
    THEN [info |-> NotGenerated("Generation failed"), interviews |-> ivs, called |-> FALSE]
    ELSE IF failure = "after"
    THEN [info |-> NotGenerated("Generation failed"), interviews |-> ivs, called |-> TRUE]
    ELSE LET feedback_data == LoadFeedback(ivs[interview_id].feedback)
             block == CardGenerationBlock(interview_id, skill_ratings, found)
         IN  [info |-> CardGenerationSummary(interview_id, skill_ratings, found),
              interviews |-> [ivs EXCEPT ![interview_id].feedback =
                                 FbJson(Put(feedback_data, "card_generation", block))],
              called |-> TRUE]

\* the same lines without the handlers of lines 616-622 and 708-711: an exception
\* of the generation leaves the request
EnsureCardsUnguarded(ivs, interview_id, skill_ratings, feedback_data, available, found, failure) ==
    IF DOMAIN skill_ratings = {}
    THEN [info |-> None, interviews |-> ivs, called |-> FALSE, raised |-> FALSE]
    ELSE LET cards_already_generated == "card_generation" \in DOMAIN feedback_data
         IN  IF ~cards_already_generated /\ available
             THEN LET generated ==
                          auto_generate_skill_cards(ivs, interview_id, skill_ratings,
                                                    available, found, failure)
                  IN  [info |-> Some(generated.info),
                       interviews |-> generated.interviews,
                       called |-> generated.called,
                       raised |-> failure # "none"]
             ELSE IF ~available
             THEN [info |-> Some(NotGenerated("Card generation not available - check imports and API key")),
                   interviews |-> ivs, called |-> FALSE, raised |-> FALSE]
             ELSE [info |-> Some(feedback_data["card_generation"]),
                   interviews |-> ivs, called |-> FALSE, raised |-> FALSE]

\* lines 691-726 of get_interview_results_with_auto_cards: card_generation_info
\* (None when there are no ratings), the interviews table, whether the generator
\* was called, and whether an exception leaves these lines (never: the generation
\* runs inside the handlers of lines 616-622 and 708-711)
EnsureCards(ivs, interview_id, skill_ratings, feedback_data, available, found, failure) ==
    IF DOMAIN skill_ratings = {}
    THEN [info |-> None, interviews |-> ivs, called |-> FALSE, raised |-> FALSE]
    ELSE LET cards_already_generated == "card_generation" \in DOMAIN feedback_data
         IN  IF ~cards_already_generated /\ available
             THEN LET generated ==
                          auto_generate_skill_cards(ivs, interview_id, skill_ratings,
                                                    available, found, failure)
                  IN  [info |-> Some(generated.info),
                       interviews |-> generated.interviews,
                       called |-> generated.called,
                       raised |-> FALSE]
             ELSE IF ~available
             THEN [info |-> Some(NotGenerated("Card generation not available - check imports and API key")),
                   interviews |-> ivs, called |-> FALSE, raised |-> FALSE]
             ELSE [info |-> Some(feedback_data["card_generation"]),
                   interviews |-> ivs, called |-> FALSE, raised |-> FALSE]

-----------------------------------------------------------------------------
(* Inputs *)

\* skill strings given to start-interview: "S,E", "S, S", "S,E,S", "S", ""
SkillInputs ==
    {<<"S", ",", "E">>, <<"S", ",", " ", "S">>, <<"S", ",", "E", ",", "S">>, <<"S">>, <<>>}

\* questions_per_skill is an unvalidated Optional[int] (InterviewStart, line 40):
\* the counts a client is meant to send, and those nothing stops it from sending
QuestionsPerSkill == 1..MaxQPS
UnvalidatedQuestionsPerSkill == (0 - 1)..0

\* the replies of the question-generation service to the calls of one plan, one
\* per skill: the same kind of reply to every call
ReplyPlans(n) == {[i \in 1..n |-> reply] : reply \in GenReplies}

\* word counts of the candidate's response
ResponseWords == {12}

FullEvaluation(score) ==
    [score |-> score, strengths |-> "llm", weaknesses |-> "llm", feedback |-> "llm"]

\* replies of the evaluation service
EvalReplies ==
    {EvalReplyError, EvalReplyObject(FullEvaluation(None)), EvalReplyObject(FullEvaluation(Some(9)))}

CardFailures == {"none", "after"}

\* where plan generation may fail: nowhere (0), at its first or second store call
FailPoints == {0, 1, 2}

\* what the outside world decides about one card generation: the rated skills
\* for which a card file is matched and whether an exception interrupts it; a
\* request that does not get as far as generating has nothing to be decided
CardOutcomes(ivs, rows, interview_id, available) ==
    LET feedback_data == LoadFeedback(ivs[interview_id].feedback)
        skill_ratings == SkillRatings(rows, interview_id, feedback_data)
    IN  IF /\ DOMAIN skill_ratings # {}
           /\ "card_generation" \notin DOMAIN feedback_data
           /\ available
        THEN (SUBSET DOMAIN skill_ratings) \X CardFailures
        ELSE {<<{}, "none">>}

-----------------------------------------------------------------------------
(* Requests: each handler of api/interviews.py runs to completion *)

Init ==
    /\ interviews = <<>>
    /\ interview_questions = <<>>
    /\ now = 0
    /\ CARD_GENERATION_AVAILABLE \in BOOLEAN
    /\ gen_calls = <<>>
    /\ arg = <<>>
    /\ requests = <<>>
    /\ ret = [op |-> "none"]

\* time passes between requests
Tick ==
    /\ now < MaxClock
    /\ now' = now + 1
    /\ UNCHANGED <<interviews, interview_questions, CARD_GENERATION_AVAILABLE, gen_calls, arg, requests, ret>>

\* the planner without the handler of lines 170-175: a failure leaves the record
\* as the INSERT of start-interview made it
generate_skill_based_questions_unhandled(ivs, rows, interview_id, skills, questions_per_skill, replies, fail_at) ==
    LET skill_list == SplitSkills(skills)
        plan == PlanSkills(skill_list, 1, questions_per_skill, replies, <<>>, EmptyDoc)
        new_rows == QuestionRows(interview_id, plan.all_questions)
    IN  IF fail_at = 0
        THEN [raised |-> FALSE,
              interview_questions |-> rows \o new_rows,
              interviews |-> [ivs EXCEPT
                  ![interview_id].status = "active",
                  ![interview_id].feedback =
                      FbJson(SkillsMetadata(skill_list, questions_per_skill, plan))]]
        ELSE [raised |-> TRUE,
              interview_questions |-> rows \o SubSeq(new_rows, 1, fail_at - 1),
              interviews |-> ivs]

\* generate_skill_based_questions for interview_id on the table ivs.  fail_at = 0:
\* nothing raises; fail_at = k > 0: the k-th store call of lines 142-168 raises
\* (the rows before it are stored), which the handler of line 170 turns into
\* status 'error' and re-raises
generate_skill_based_questions(ivs, rows, interview_id, skills, questions_per_skill, replies, fail_at) ==
    LET skill_list == SplitSkills(skills)
        plan == PlanSkills(skill_list, 1, questions_per_skill, replies, <<>>, EmptyDoc)
        new_rows == QuestionRows(interview_id, plan.all_questions)
    IN  IF fail_at = 0
        THEN [raised |-> FALSE,
              interview_questions |-> rows \o new_rows,
              interviews |-> [ivs EXCEPT
                  ![interview_id].status = "active",
                  ![interview_id].feedback =
                      FbJson(SkillsMetadata(skill_list, questions_per_skill, plan))]]
        ELSE [raised |-> TRUE,
              interview_questions |-> rows \o SubSeq(new_rows, 1, fail_at - 1),
              interviews |-> [ivs EXCEPT ![interview_id].status = "error",
                                         ![interview_id].feedback = FbText]]

\* the number of questions the plan of these inputs holds
PlannedRows(skills, questions_per_skill, replies) ==
    Len(PlanSkills(SplitSkills(skills), 1, questions_per_skill, replies,
                   <<>>, EmptyDoc).all_questions)

\* POST /start: start_skill_based_interview
StartInterview(skills, questions_per_skill, replies, fail_at) ==
    /\ Len(interviews) < MaxInterviews
    /\ LET inserted == Append(interviews, [status |-> "pending",
                                           feedback |-> FbNull,
                                           created_at |-> now,
                                           completed_at |-> None])
       IN  \E interview_id \in LatestInterviews(inserted) :
             LET done == generate_skill_based_questions(inserted, interview_questions,
                             interview_id, skills, questions_per_skill, replies, fail_at)
             IN  /\ fail_at <= PlannedRows(skills, questions_per_skill, replies) + 1
                 /\ interviews' = done.interviews
                 /\ interview_questions' = done.interview_questions
                 /\ gen_calls' = Append(gen_calls, 0)
                 /\ ret' = [op |-> "start",
                            status_code |-> IF done.raised THEN 500 ELSE 201,
                            interview_id |-> interview_id,
                            skills |-> skills,
                            questions_per_skill |-> questions_per_skill]
    /\ UNCHANGED <<now, CARD_GENERATION_AVAILABLE, arg, requests>>

\* the handler without the check of lines 187-191: an unknown interview is
\* answered like one that has no questions
GetQuestionsUnchecked(interview_id) ==
    /\ ret' = LET questions == RowsOfInterview(interview_questions, interview_id)
              IN  [op |-> "questions",
                   status_code |-> 200,
                   interview_id |-> interview_id,
                   status |-> "pending",
                   total_questions |-> Len(questions),
                   answered_questions |-> Len(Answered(questions)),
                   skills_assessed |-> <<>>,
                   questions_per_skill |-> 3]
    /\ UNCHANGED <<interviews, interview_questions, now, CARD_GENERATION_AVAILABLE, gen_calls, arg, requests>>

\* GET /{interview_id}/questions: get_skill_based_interview_questions
GetQuestions(interview_id) ==
    /\ ret' = IF interview_id \notin DOMAIN interviews
              THEN [op |-> "questions", status_code |-> 404, interview_id |-> interview_id]
              ELSE LET questions == RowsOfInterview(interview_questions, interview_id)
                       skills_info == LoadFeedback(interviews[interview_id].feedback)
                   IN  [op |-> "questions",
                        status_code |-> 200,
                        interview_id |-> interview_id,
                        status |-> interviews[interview_id].status,
                        total_questions |-> Len(questions),
                        answered_questions |-> Len(Answered(questions)),
                        skills_assessed |-> Get(skills_info, "skills_assessed", <<>>),
                        questions_per_skill |-> Get(skills_info, "questions_per_skill", 3)]
    /\ UNCHANGED <<interviews, interview_questions, now, CARD_GENERATION_AVAILABLE, gen_calls, arg, requests>>

\* POST /submit-response: submit_skill_based_response
SubmitResponse(question_id, words, llm_reply) ==
    /\ IF question_id \notin DOMAIN interview_questions
       THEN /\ ret' = [op |-> "submit", status_code |-> 404, question_id |-> question_id]
            /\ UNCHANGED <<interviews, interview_questions>>
       ELSE LET question_data == interview_questions[question_id]
                interview_id == question_data.interview_id
                skill == question_data.question_type
                evaluation ==
                    evaluate_skill_response(StrValue(words), skill, llm_reply).evaluation
                rows == [interview_questions EXCEPT
                            ![question_id].response = Some(words),
                            ![question_id].evaluation = evaluation,
                            ![question_id].score = Get(evaluation, "score", Some(0))]
                skill_rating_update == check_and_update_skill_rating(rows, interview_id, skill)
                rated == IF skill_rating_update.store
                         THEN store_skill_rating(interviews, interview_id, skill,
                                                 skill_rating_update.star_rating,
                                                 skill_rating_update.stored_average)
                         ELSE interviews
            IN  /\ interview_questions' = rows
                /\ interviews' = MarkCompleted(rated, rows, interview_id, now)
                /\ ret' = [op |-> "submit",
                           status_code |-> 200,
                           question_id |-> question_id,
                           interview_id |-> interview_id,
                           response |-> words,
                           llm_reply |-> llm_reply,
                           evaluation |-> evaluation,
                           skill_assessed |-> skill,
                           skill_rating_update |-> skill_rating_update,
                           interview_progress |-> InterviewProgress(rows, interview_id)]
    /\ UNCHANGED <<now, CARD_GENERATION_AVAILABLE, gen_calls, arg, requests>>

\* GET /{interview_id}/results: get_interview_results_with_auto_cards
GetResults(interview_id, found, failure) ==
    /\ IF interview_id \notin DOMAIN interviews
       THEN /\ ret' = [op |-> "results", status_code |-> 404, interview_id |-> interview_id]
            /\ UNCHANGED <<interviews, gen_calls>>
       ELSE LET interview_data == interviews[interview_id]
                feedback_data == LoadFeedback(interview_data.feedback)
                skill_ratings == SkillRatings(interview_questions, interview_id, feedback_data)
                overall_stars == OverallStars(skill_ratings)
                cards == EnsureCards(interviews, interview_id, skill_ratings, feedback_data,
                                     CARD_GENERATION_AVAILABLE, found, failure)
            IN  /\ cards.called => gen_calls[interview_id] < MaxGenCalls
                /\ interviews' = cards.interviews
                /\ gen_calls' = IF cards.called
                                THEN [gen_calls EXCEPT ![interview_id] = @ + 1]
                                ELSE gen_calls
                /\ ret' = IF cards.raised
                          THEN [op |-> "results", status_code |-> 500,
                                interview_id |-> interview_id]
                          ELSE [op |-> "results",
                                status_code |-> 200,
                                interview_id |-> interview_id,
                                status |-> interview_data.status,
                                completed_at |-> interview_data.completed_at,
                                skill_ratings |-> skill_ratings,
                                overall_score |-> IF DOMAIN skill_ratings # {}
                                                  THEN overall_stars * 2 ELSE 1,
                                overall_stars |-> overall_stars,
                                total_skills |-> Cardinality(DOMAIN skill_ratings),
                                card_generation |-> cards.info]
    /\ UNCHANGED <<interview_questions, now, CARD_GENERATION_AVAILABLE, arg, requests>>

Next ==
    \/ \E skills \in SkillInputs, questions_per_skill \in QuestionsPerSkill :
         \E replies \in ReplyPlans(Len(SplitSkills(skills))), fail_at \in FailPoints :
            /\ StartInterview(skills, questions_per_skill, replies, fail_at)
            /\ Len(interview_questions)
                  + PlannedRows(skills, questions_per_skill, replies) <= MaxRows
    \/ \E skills \in SkillInputs, questions_per_skill \in UnvalidatedQuestionsPerSkill :
         \E replies \in ReplyPlans(Len(SplitSkills(skills))), fail_at \in FailPoints :
            /\ StartInterview(skills, questions_per_skill, replies, fail_at)
            /\ Len(interview_questions)
                  + PlannedRows(skills, questions_per_skill, replies) <= MaxRows
    \/ \E interview_id \in 1..(MaxInterviews + 1) : GetQuestions(interview_id)
    \/ \E question_id \in 1..(MaxRows + 1), words \in ResponseWords, llm_reply \in EvalReplies :
         SubmitResponse(question_id, words, llm_reply)
    \/ \E interview_id \in DOMAIN interviews :
         \E outcome \in CardOutcomes(interviews, interview_questions, interview_id,
                                     CARD_GENERATION_AVAILABLE) :
            GetResults(interview_id, outcome[1], outcome[2])
    \/ \E interview_id \in (1..(MaxInterviews + 1)) \ DOMAIN interviews :
         GetResults(interview_id, {}, "none")
    \/ Tick

Spec == Init /\ [][Next]_vars

-----------------------------------------------------------------------------
(* parse_skills on every skill string of at most MaxLen characters *)

InitParse ==
    /\ interviews = <<>>
    /\ interview_questions = <<>>
    /\ now = 0
    /\ CARD_GENERATION_AVAILABLE = FALSE
    /\ gen_calls = <<>>
    /\ arg \in StringsUpTo(MaxLen)
    /\ requests = <<>>
    /\ ret = [op |-> "none"]

ParseSkills ==
    /\ ret.op = "none"
    /\ ret' = [op |-> "parse_skills", value |-> parse_skills(arg)]
    /\ UNCHANGED <<interviews, interview_questions, now, CARD_GENERATION_AVAILABLE, gen_calls, arg, requests>>

NextParse == ParseSkills

SpecParse == InitParse /\ [][NextParse]_vars

-----------------------------------------------------------------------------
(* start-interview on the empty tables, for every planning input *)

\* replies of the question-generation service, also those that are no JSON list
PlanReplies == GenReplies \cup {GenReplyNonList, GenReplyLines(MaxQPS)}

PlanInputs ==
    {[skills |-> skills,
      questions_per_skill |-> questions_per_skill,
      replies |-> [i \in 1..Len(SplitSkills(skills)) |-> reply],
      fail_at |-> fail_at] :
        skills \in SkillInputs,
        questions_per_skill \in QuestionsPerSkill \cup UnvalidatedQuestionsPerSkill,
        reply \in PlanReplies,
        fail_at \in FailPoints}

InitPlan ==
    /\ interviews = <<>>
    /\ interview_questions = <<>>
    /\ now = 0
    /\ CARD_GENERATION_AVAILABLE = FALSE
    /\ gen_calls = <<>>
    /\ arg \in PlanInputs
    /\ requests = <<>>
    /\ ret = [op |-> "none"]

PlanInterview ==
    StartInterview(arg.skills, arg.questions_per_skill, arg.replies, arg.fail_at)

NextPlan == PlanInterview

SpecPlan == InitPlan /\ [][NextPlan]_vars

-----------------------------------------------------------------------------
(* the score-to-star mapping alone, for every score of the grid *)

Scores == {Frac(n, ScoreScale) : n \in 0..(MaxScore * ScoreScale)}

InitStars ==
    /\ interviews = <<>>
    /\ interview_questions = <<>>
    /\ now = 0
    /\ CARD_GENERATION_AVAILABLE \in BOOLEAN
    /\ gen_calls = <<>>
    /\ arg \in Scores
    /\ requests = <<>>
    /\ ret = [op |-> "none"]

ConvertScore ==
    /\ ret.op = "none"
    /\ ret' = [op |-> "convert_score_to_stars",
               value |-> convert_score_to_stars(arg),
               generator_value |-> QuestionGenerator_convert_score_to_stars(arg),
               proficiency_level |-> QuestionGenerator_determine_proficiency_level(arg)]
    /\ UNCHANGED <<interviews, interview_questions, now, CARD_GENERATION_AVAILABLE, gen_calls, arg, requests>>

NextStars == ConvertScore

SpecStars == InitStars /\ [][NextStars]_vars

-----------------------------------------------------------------------------
(* the overall rating of one set of per-skill average scores, computed as
   get-results computes it and as the rating calculator computes it *)

\* per-skill averages of scores 1..10, in steps of one half
AverageScores == {Frac(n, 2) : n \in 2..20}

\* one average per skill, for 1..MaxSkills skills
OverallInputs == UNION {[1..n -> AverageScores] : n \in 1..MaxSkills}

InitOverall ==
    /\ interviews = <<>>
    /\ interview_questions = <<>>
    /\ now = 0
    /\ CARD_GENERATION_AVAILABLE = FALSE
    /\ gen_calls = <<>>
    /\ arg \in OverallInputs
    /\ requests = <<>>
    /\ ret = [op |-> "none"]

\* skill_ratings as lines 649-679 hold it (the star of every skill, here keyed by
\* the position of the skill) and overall_stars of lines 684-689, next to the
\* overall_rating of calculate_individual_skill_ratings
OverallRating ==
    /\ ret.op = "none"
    /\ LET skill_ratings == [i \in DOMAIN arg |-> convert_score_to_stars(arg[i])]
       IN  ret' = [op |-> "overall_rating",
                   skill_ratings |-> skill_ratings,
                   overall_stars |-> OverallStars(skill_ratings),
                   overall_rating |-> QuestionGenerator_overall_rating(arg)]
    /\ UNCHANGED <<interviews, interview_questions, now, CARD_GENERATION_AVAILABLE, gen_calls, arg, requests>>

NextOverall == OverallRating

SpecOverall == InitOverall /\ [][NextOverall]_vars

-----------------------------------------------------------------------------
(* question generation for one skill, for every outcome of the generation call *)

GenSkills == {<<"S">>, <<"E">>}

GenOutcomes ==
    {GenReplyError, GenReplyRaises, GenReplyUnparseable, GenReplyNonList}
    \cup {GenReplyList(n) : n \in 0..(MaxQPS + 1)}
    \cup {GenReplyFencedList(n) : n \in 0..(MaxQPS + 1)}
    \cup {GenReplyLines(n) : n \in 0..(MaxQPS + 1)}

GenInputs ==
    {[skill |-> skill, questions_per_skill |-> questions_per_skill, reply |-> reply] :
        skill \in GenSkills,
        questions_per_skill \in QuestionsPerSkill \cup UnvalidatedQuestionsPerSkill,
        reply \in GenOutcomes}

InitGenerate ==
    /\ interviews = <<>>
    /\ interview_questions = <<>>
    /\ now = 0
    /\ CARD_GENERATION_AVAILABLE = FALSE
    /\ gen_calls = <<>>
    /\ arg \in GenInputs
    /\ requests = <<>>
    /\ ret = [op |-> "none"]

GenerateQuestions ==
    /\ ret.op = "none"
    /\ ret' = [op |-> "generate_skill_specific_questions",
               value |-> generate_skill_specific_questions(
                             arg.skill, arg.questions_per_skill, arg.reply)]
    /\ UNCHANGED <<interviews, interview_questions, now, CARD_GENERATION_AVAILABLE, gen_calls, arg, requests>>

NextGenerate == GenerateQuestions

SpecGenerate == InitGenerate /\ [][NextGenerate]_vars

-----------------------------------------------------------------------------
(* evaluate_response alone, for every reply of the evaluation service *)

\* word counts of the candidate's response, one for each bucket of the heuristic
EvalWords == {5, 12, 30, 60, 120}

\* JSON objects holding any subset of the four required fields
PartialEvaluations ==
    {[k \in keys |-> FullEvaluation(score)[k]] :
        keys \in SUBSET {"score", "strengths", "weaknesses", "feedback"},
        score \in {None, Some(9)}}

EvalOutcomes ==
    {EvalReplyError, EvalReplyMalformed, EvalReplyNonObject, EvalReplyUnparseable}
    \cup {EvalReplyObject(fields) : fields \in PartialEvaluations}
    \cup {EvalReplyFenced(fields) : fields \in PartialEvaluations}

EvalInputs == {[words |-> words, llm_reply |-> llm_reply] :
                  words \in EvalWords, llm_reply \in EvalOutcomes}

InitEvaluate ==
    /\ interviews = <<>>
    /\ interview_questions = <<>>
    /\ now = 0
    /\ CARD_GENERATION_AVAILABLE = FALSE
    /\ gen_calls = <<>>
    /\ arg \in EvalInputs
    /\ requests = <<>>
    /\ ret = [op |-> "none"]

EvaluateResponse ==
    /\ ret.op = "none"
    /\ ret' = [op |-> "evaluate_response",
               outcome |-> evaluate_response(StrValue(arg.words), arg.llm_reply)]
    /\ UNCHANGED <<interviews, interview_questions, now, CARD_GENERATION_AVAILABLE, gen_calls, arg, requests>>

NextEvaluate == EvaluateResponse

SpecEvaluate == InitEvaluate /\ [][NextEvaluate]_vars

-----------------------------------------------------------------------------
(* submit-response requests served at the same time.  Every execute_sql call
   opens its own connection and commits (database.py 32-53), so one SQL
   statement is one step; what a handler computes between two statements is
   part of the step of the later one. *)

Procs == 1..MaxRequests

Idle == [pc |-> "idle"]
Done(response) == [pc |-> "done", response |-> response]

\* skill strings and replies of the evaluation service used here
ConcurrentSkillInputs == {<<"S", ",", "E">>, <<"S">>}
ConcurrentReplies == {EvalReplyError, EvalReplyObject(FullEvaluation(Some(9)))}

\* the tables after one start-interview on the empty tables
StartedTables(skills, questions_per_skill) ==
    generate_skill_based_questions(
        <<[status |-> "pending", feedback |-> FbNull, created_at |-> 0, completed_at |-> None]>>,
        <<>>, 1, skills, questions_per_skill,
        [i \in 1..Len(SplitSkills(skills)) |-> GenReplyError], 0)

InitConcurrent ==
    /\ \E skills \in ConcurrentSkillInputs, questions_per_skill \in QuestionsPerSkill :
          LET started == StartedTables(skills, questions_per_skill)
          IN  /\ Len(started.interview_questions) <= MaxRows
              /\ interviews = started.interviews
              /\ interview_questions = started.interview_questions
    /\ now = 0
    /\ CARD_GENERATION_AVAILABLE = FALSE
    /\ gen_calls = <<0>>
    /\ arg = <<>>
    /\ requests = [p \in Procs |-> Idle]
    /\ ret = [op |-> "none"]

\* lines 251-263: SELECT the question joined with its interview
SubmitSelectQuestion(p, question_id, words, llm_reply) ==
    /\ requests[p].pc = "idle"
    /\ requests' = [requests EXCEPT ![p] =
          IF question_id \notin DOMAIN interview_questions
          THEN Done([op |-> "submit", status_code |-> 404, question_id |-> question_id])
          ELSE [pc |-> "store_response",
                question_id |-> question_id,
                words |-> words,
                llm_reply |-> llm_reply,
                interview_id |-> interview_questions[question_id].interview_id,
                skill |-> interview_questions[question_id].question_type]]
    /\ UNCHANGED <<interviews, interview_questions, now, CARD_GENERATION_AVAILABLE, gen_calls, arg, ret>>

\* lines 271-275: UPDATE interview_questions SET response
SubmitStoreResponse(p) ==
    /\ requests[p].pc = "store_response"
    /\ interview_questions' =
          [interview_questions EXCEPT ![requests[p].question_id].response = Some(requests[p].words)]
    /\ requests' = [requests EXCEPT ![p].pc = "store_evaluation"]
    /\ UNCHANGED <<interviews, now, CARD_GENERATION_AVAILABLE, gen_calls, arg, ret>>

\* lines 277-292: evaluate the response, UPDATE interview_questions SET evaluation, score
SubmitStoreEvaluation(p) ==
    /\ requests[p].pc = "store_evaluation"
    /\ LET r == requests[p]
           evaluation == evaluate_skill_response(StrValue(r.words), r.skill, r.llm_reply).evaluation
       IN  /\ interview_questions' =
                 [interview_questions EXCEPT
                     ![r.question_id].evaluation = evaluation,
                     ![r.question_id].score = Get(evaluation, "score", Some(0))]
           /\ requests' = [requests EXCEPT ![p] =
                 [pc |-> "select_skill_questions", evaluation |-> evaluation] @@ r]
    /\ UNCHANGED <<interviews, now, CARD_GENERATION_AVAILABLE, gen_calls, arg, ret>>

\* lines 335-338: SELECT the scores of the answered questions of the skill
SubmitSelectSkillQuestions(p) ==
    /\ requests[p].pc = "select_skill_questions"
    /\ LET r == requests[p]
       IN  requests' = [requests EXCEPT ![p] =
              [pc |-> "count_skill_questions",
               skill_questions |->
                   Answered(RowsOfSkill(interview_questions, r.interview_id, r.skill))] @@ r]
    /\ UNCHANGED <<interviews, interview_questions, now, CARD_GENERATION_AVAILABLE, gen_calls, arg, ret>>

\* lines 345-371: the rating of the skill from the rows read at lines 335-343
SkillRatingDecision(skill, skill_questions, total_skill_questions) ==
    LET answered_skill_questions == Len(skill_questions)
        scores == NonNullScores(skill_questions)
    IN  IF answered_skill_questions = total_skill_questions
           /\ answered_skill_questions > 0
           /\ scores # <<>>
        THEN LET avg_score == Frac(SumSeq(scores), Len(scores))
             IN  [store |-> TRUE,
                  skill |-> skill,
                  completed |-> TRUE,
                  star_rating |-> convert_score_to_stars(avg_score),
                  stored_average |-> avg_score,
                  average_score |-> PyRound1(avg_score),
                  questions_answered |-> answered_skill_questions]
        ELSE [store |-> FALSE,
              skill |-> skill,
              completed |-> FALSE,
              questions_answered |-> answered_skill_questions,
              questions_total |-> total_skill_questions]

\* lines 340-351: SELECT count(*) of the questions of the skill, then decide
SubmitCountSkillQuestions(p) ==
    /\ requests[p].pc = "count_skill_questions"
    /\ LET r == requests[p]
           total_skill_questions ==
               Len(RowsOfSkill(interview_questions, r.interview_id, r.skill))
           skill_rating_update ==
               SkillRatingDecision(r.skill, r.skill_questions, total_skill_questions)
       IN  requests' = [requests EXCEPT ![p] =
              [pc |-> IF skill_rating_update.store THEN "select_feedback" ELSE "count_all",
               skill_rating_update |-> skill_rating_update] @@ r]
    /\ UNCHANGED <<interviews, interview_questions, now, CARD_GENERATION_AVAILABLE, gen_calls, arg, ret>>

\* store_skill_rating, lines 378-390: SELECT feedback and parse it
SubmitSelectFeedback(p) ==
    /\ requests[p].pc = "select_feedback"
    /\ LET r == requests[p]
       IN  requests' = [requests EXCEPT ![p] =
              [pc |-> "update_feedback",
               feedback_data |-> LoadFeedback(interviews[r.interview_id].feedback)] @@ r]
    /\ UNCHANGED <<interviews, interview_questions, now, CARD_GENERATION_AVAILABLE, gen_calls, arg, ret>>

\* store_skill_rating, lines 392-405: set skill_ratings[skill] in the document
\* read before and UPDATE interviews SET feedback with it
SubmitUpdateFeedback(p) ==
    /\ requests[p].pc = "update_feedback"
    /\ LET r == requests[p]
           skill_ratings == Get(r.feedback_data, "skill_ratings", EmptyDoc)
           rating == [star_rating |-> r.skill_rating_update.star_rating,
                      average_score |-> r.skill_rating_update.stored_average]
       IN  interviews' = [interviews EXCEPT ![r.interview_id].feedback =
              FbJson(Put(r.feedback_data, "skill_ratings", Put(skill_ratings, r.skill, rating)))]
    /\ requests' = [requests EXCEPT ![p].pc = "count_all"]
    /\ UNCHANGED <<interview_questions, now, CARD_GENERATION_AVAILABLE, gen_calls, arg, ret>>

\* lines 298-301: SELECT count(*) of the questions of the interview
SubmitCountAll(p) ==
    /\ requests[p].pc = "count_all"
    /\ LET r == requests[p]
       IN  requests' = [requests EXCEPT ![p] =
              [pc |-> "count_answered",
               all_questions |-> Len(RowsOfInterview(interview_questions, r.interview_id))] @@ r]
    /\ UNCHANGED <<interviews, interview_questions, now, CARD_GENERATION_AVAILABLE, gen_calls, arg, ret>>

\* the dict returned at lines 317-328
SubmitResponseData(r, answered_questions) ==
    [op |-> "submit",
     status_code |-> 200,
     question_id |-> r.question_id,
     interview_id |-> r.interview_id,
     response |-> r.words,
     llm_reply |-> r.llm_reply,
     evaluation |-> r.evaluation,
     skill_assessed |-> r.skill,
     skill_rating_update |-> r.skill_rating_update,
     interview_progress |-> [answered |-> answered_questions,
                             total |-> r.all_questions,
                             completed |-> (r.all_questions = answered_questions)]]

\* a variant that takes the number of answered questions from the rows read for
\* the skill rating instead of counting the rows again
SubmitCountAnsweredCached(p) ==
    /\ requests[p].pc = "count_answered"
    /\ LET r == requests[p]
           answered_questions == Len(r.skill_questions)
       IN  requests' = [requests EXCEPT ![p] =
              IF r.all_questions = answered_questions
              THEN [pc |-> "mark_completed", answered_questions |-> answered_questions] @@ r
              ELSE Done(SubmitResponseData(r, answered_questions))]
    /\ UNCHANGED <<interviews, interview_questions, now, CARD_GENERATION_AVAILABLE, gen_calls, arg, ret>>

\* lines 303-308: SELECT count(*) of the answered questions; the request ends
\* here unless every question is answered
SubmitCountAnswered(p) ==
    /\ requests[p].pc = "count_answered"
    /\ LET r == requests[p]
           answered_questions ==
               Len(Answered(RowsOfInterview(interview_questions, r.interview_id)))
       IN  requests' = [requests EXCEPT ![p] =
              IF r.all_questions = answered_questions
              THEN [pc |-> "mark_completed", answered_questions |-> answered_questions] @@ r
              ELSE Done(SubmitResponseData(r, answered_questions))]
    /\ UNCHANGED <<interviews, interview_questions, now, CARD_GENERATION_AVAILABLE, gen_calls, arg, ret>>

\* lines 310-328: UPDATE interviews SET status = 'completed', and return
SubmitMarkCompleted(p) ==
    /\ requests[p].pc = "mark_completed"
    /\ LET r == requests[p]
       IN  /\ interviews' = [interviews EXCEPT ![r.interview_id].status = "completed",
                                               ![r.interview_id].completed_at = Some(now)]
           /\ requests' = [requests EXCEPT ![p] =
                 Done(SubmitResponseData(r, r.answered_questions))]
    /\ UNCHANGED <<interview_questions, now, CARD_GENERATION_AVAILABLE, gen_calls, arg, ret>>

NextConcurrent ==
    \/ \E p \in Procs, question_id \in 1..(MaxRows + 1), llm_reply \in ConcurrentReplies :
          \E words \in ResponseWords : SubmitSelectQuestion(p, question_id, words, llm_reply)
    \/ \E p \in Procs : SubmitStoreResponse(p)
    \/ \E p \in Procs : SubmitStoreEvaluation(p)
    \/ \E p \in Procs : SubmitSelectSkillQuestions(p)
    \/ \E p \in Procs : SubmitCountSkillQuestions(p)
    \/ \E p \in Procs : SubmitSelectFeedback(p)
    \/ \E p \in Procs : SubmitUpdateFeedback(p)
    \/ \E p \in Procs : SubmitCountAll(p)
    \/ \E p \in Procs : SubmitCountAnswered(p)
    \/ \E p \in Procs : SubmitMarkCompleted(p)
    \/ Tick

SpecConcurrent == InitConcurrent /\ [][NextConcurrent]_vars

-----------------------------------------------------------------------------
(* get-results requests served at the same time as each other and as
   submit-response requests, one SQL statement a step as above, on an interview
   of which some questions have been answered before *)

\* the tables these requests start from: one interview for skill S
ResultsSkillInputs == {<<"S">>}

\* the tables after a submit-response that ran alone (lines 271-315), as
\* SubmitResponse leaves them
SubmittedTables(tables, question_id, words, llm_reply, time) ==
    LET question_data == tables.interview_questions[question_id]
        interview_id == question_data.interview_id
        skill == question_data.question_type
        evaluation == evaluate_skill_response(StrValue(words), skill, llm_reply).evaluation
        rows == [tables.interview_questions EXCEPT
                    ![question_id].response = Some(words),
                    ![question_id].evaluation = evaluation,
                    ![question_id].score = Get(evaluation, "score", Some(0))]
        skill_rating_update == check_and_update_skill_rating(rows, interview_id, skill)
        rated == IF skill_rating_update.store
                 THEN store_skill_rating(tables.interviews, interview_id, skill,
                                         skill_rating_update.star_rating,
                                         skill_rating_update.stored_average)
                 ELSE tables.interviews
    IN  [interviews |-> MarkCompleted(rated, rows, interview_id, time),
         interview_questions |-> rows]

\* the first k questions answered one after the other
RECURSIVE AnsweredTables(_, _)
AnsweredTables(tables, k) ==
    IF k = 0 THEN tables
    ELSE SubmittedTables(AnsweredTables(tables, k - 1), k, 12, EvalReplyError, 0)

\* the dict returned at lines 728-748
ResultsResponseData(r, card_generation_info) ==
    LET overall_stars == OverallStars(r.skill_ratings)
    IN  [op |-> "results",
         status_code |-> 200,
         interview_id |-> r.interview_id,
         status |-> r.interview_data.status,
         completed_at |-> r.interview_data.completed_at,
         skill_ratings |-> r.skill_ratings,
         overall_score |-> IF DOMAIN r.skill_ratings # {} THEN overall_stars * 2 ELSE 1,
         overall_stars |-> overall_stars,
         total_skills |-> Cardinality(DOMAIN r.skill_ratings),
         card_generation |-> card_generation_info]

InitResults ==
    /\ \E skills \in ResultsSkillInputs, questions_per_skill \in QuestionsPerSkill :
          LET started == StartedTables(skills, questions_per_skill)
          IN  /\ Len(started.interview_questions) <= MaxRows
              /\ \E k \in 0..Len(started.interview_questions) :
                    LET tables == AnsweredTables(
                                      [interviews |-> started.interviews,
                                       interview_questions |-> started.interview_questions], k)
                    IN  /\ interviews = tables.interviews
                        /\ interview_questions = tables.interview_questions
    /\ now = 0
    /\ CARD_GENERATION_AVAILABLE = TRUE
    /\ gen_calls = <<0>>
    /\ arg = <<>>
    /\ requests = [p \in Procs |-> Idle]
    /\ ret = [op |-> "none"]

\* lines 632-657: SELECT the interview, parse its feedback, take the stored ratings
ResultsSelectInterview(p, interview_id) ==
    /\ requests[p].pc = "idle"
    /\ requests' = [requests EXCEPT ![p] =
          IF interview_id \notin DOMAIN interviews
          THEN Done([op |-> "results", status_code |-> 404, interview_id |-> interview_id])
          ELSE LET feedback_data == LoadFeedback(interviews[interview_id].feedback)
                   stored == StoredStarRatings(feedback_data)
               IN  [pc |-> IF DOMAIN stored # {} THEN "cards" ELSE "select_scores",
                    interview_id |-> interview_id,
                    interview_data |-> interviews[interview_id],
                    feedback_data |-> feedback_data,
                    skill_ratings |-> stored]]
    /\ UNCHANGED <<interviews, interview_questions, now, CARD_GENERATION_AVAILABLE, gen_calls, arg, ret>>

\* lines 660-679: no stored rating, SELECT the answered rows and rate them
ResultsSelectScores(p) ==
    /\ requests[p].pc = "select_scores"
    /\ requests' = [requests EXCEPT ![p].pc = "cards",
                                    ![p].skill_ratings =
                                        OnTheFlyStarRatings(interview_questions,
                                                            requests[p].interview_id)]
    /\ UNCHANGED <<interviews, interview_questions, now, CARD_GENERATION_AVAILABLE, gen_calls, arg, ret>>

\* lines 683-726 with auto_generate_skill_cards up to its SELECT of lines 582-593:
\* the request answers here unless it has cards to store.  found and failure are
\* as in auto_generate_skill_cards
ResultsGenerateCards(p, found, failure) ==
    /\ requests[p].pc = "cards"
    /\ LET r == requests[p]
           generates == /\ DOMAIN r.skill_ratings # {}
                        /\ "card_generation" \notin DOMAIN r.feedback_data
                        /\ CARD_GENERATION_AVAILABLE
       IN  /\ generates => gen_calls[r.interview_id] < MaxGenCalls
           /\ ~generates => (found = {} /\ failure = "none")
           /\ found \subseteq DOMAIN r.skill_ratings
           /\ gen_calls' = IF generates
                           THEN [gen_calls EXCEPT ![r.interview_id] = @ + 1]
                           ELSE gen_calls
           /\ requests' = [requests EXCEPT ![p] =
                 IF DOMAIN r.skill_ratings = {}
                 THEN Done(ResultsResponseData(r, None))
                 ELSE IF "card_generation" \in DOMAIN r.feedback_data
                 THEN Done(ResultsResponseData(r, Some(r.feedback_data["card_generation"])))
                 ELSE IF ~CARD_GENERATION_AVAILABLE
                 THEN Done(ResultsResponseData(r,
                         Some(NotGenerated("Card generation not available - check imports and API key"))))
                 ELSE IF failure # "none"
                 THEN Done(ResultsResponseData(r, Some(NotGenerated("Generation failed"))))
                 ELSE [pc |-> "store_cards",
                       found |-> found,
                       stored_feedback |-> LoadFeedback(interviews[r.interview_id].feedback)]
                      @@ r]
    /\ UNCHANGED <<interviews, interview_questions, now, CARD_GENERATION_AVAILABLE, arg, ret>>

\* auto_generate_skill_cards, lines 595-614: put the card_generation block into
\* the document read before, UPDATE interviews SET feedback with it, and answer
ResultsStoreCards(p) ==
    /\ requests[p].pc = "store_cards"
    /\ LET r == requests[p]
           block == CardGenerationBlock(r.interview_id, r.skill_ratings, r.found)
       IN  /\ interviews' = [interviews EXCEPT ![r.interview_id].feedback =
                 FbJson(Put(r.stored_feedback, "card_generation", block))]
           /\ requests' = [requests EXCEPT ![p] =
                 Done(ResultsResponseData(r,
                     Some(CardGenerationSummary(r.interview_id, r.skill_ratings, r.found))))]
    /\ UNCHANGED <<interview_questions, now, CARD_GENERATION_AVAILABLE, gen_calls, arg, ret>>

NextResults ==
    \/ \E p \in Procs, question_id \in DOMAIN interview_questions, llm_reply \in ConcurrentReplies :
          \E words \in ResponseWords : SubmitSelectQuestion(p, question_id, words, llm_reply)
    \/ \E p \in Procs : SubmitStoreResponse(p)
    \/ \E p \in Procs : SubmitStoreEvaluation(p)
    \/ \E p \in Procs : SubmitSelectSkillQuestions(p)
    \/ \E p \in Procs : SubmitCountSkillQuestions(p)
    \/ \E p \in Procs : SubmitSelectFeedback(p)
    \/ \E p \in Procs : SubmitUpdateFeedback(p)
    \/ \E p \in Procs : SubmitCountAll(p)
    \/ \E p \in Procs : SubmitCountAnswered(p)
    \/ \E p \in Procs : SubmitMarkCompleted(p)
    \/ \E p \in Procs, interview_id \in DOMAIN interviews : ResultsSelectInterview(p, interview_id)
    \/ \E p \in Procs : ResultsSelectScores(p)
    \/ \E p \in Procs, found \in SUBSET {<<"S">>}, failure \in CardFailures :
          ResultsGenerateCards(p, found, failure)
    \/ \E p \in Procs : ResultsStoreCards(p)

SpecResults == InitResults /\ [][NextResults]_vars

-----------------------------------------------------------------------------
(* start-interview requests served at the same time, one SQL statement a step;
   store failures are left to the sequential specification *)

\* skill strings of the requests: different ones, so that the plans differ
StartSkillInputs == {<<"S">>, <<"E">>}

\* the rows that the requests under way will have inserted when they are done
PendingRows ==
    LET RowsOfRequest(r) ==
            IF r.pc \in {"select_latest", "insert_question", "store_plan"}
            THEN Len(r.new_questions) - r.inserted
            ELSE 0
    IN  SumSeq([p \in Procs |-> RowsOfRequest(requests[p])])

InitStart ==
    /\ interviews = <<>>
    /\ interview_questions = <<>>
    /\ now = 0
    /\ CARD_GENERATION_AVAILABLE = FALSE
    /\ gen_calls = <<>>
    /\ arg = <<>>
    /\ requests = [p \in Procs |-> Idle]
    /\ ret = [op |-> "none"]

\* lines 69-72: INSERT INTO interviews, status 'pending', created_at now.  The
\* questions the request is going to plan (lines 123-139) depend on its inputs
\* and on the replies of the generation service only
StartInsertInterview(p, skills, questions_per_skill, replies) ==
    /\ requests[p].pc = "idle"
    /\ LET skill_list == SplitSkills(skills)
           plan == PlanSkills(skill_list, 1, questions_per_skill, replies, <<>>, EmptyDoc)
       IN  /\ Len(interview_questions) + PendingRows + Len(plan.all_questions) <= MaxRows
           /\ requests' = [requests EXCEPT ![p] =
                 [pc |-> "select_latest",
                  skills |-> skills,
                  questions_per_skill |-> questions_per_skill,
                  new_questions |-> plan.all_questions,
                  skills_metadata |-> SkillsMetadata(skill_list, questions_per_skill, plan),
                  inserted |-> 0]]
    /\ interviews' = Append(interviews, [status |-> "pending",
                                         feedback |-> FbNull,
                                         created_at |-> now,
                                         completed_at |-> None])
    /\ gen_calls' = Append(gen_calls, 0)
    /\ UNCHANGED <<interview_questions, now, CARD_GENERATION_AVAILABLE, arg, ret>>

\* lines 75-85: SELECT id FROM interviews ORDER BY created_at DESC LIMIT 1
StartSelectLatest(p, interview_id) ==
    /\ requests[p].pc = "select_latest"
    /\ interview_id \in LatestInterviews(interviews)
    /\ requests' = [requests EXCEPT ![p] =
          [pc |-> IF requests[p].new_questions # <<>> THEN "insert_question" ELSE "store_plan",
           interview_id |-> interview_id] @@ requests[p]]
    /\ UNCHANGED <<interviews, interview_questions, now, CARD_GENERATION_AVAILABLE, gen_calls, arg, ret>>

\* lines 141-155: INSERT the next question of the plan for the interview id read
StartInsertQuestion(p) ==
    /\ requests[p].pc = "insert_question"
    /\ LET r == requests[p]
           new_rows == QuestionRows(r.interview_id, r.new_questions)
       IN  /\ interview_questions' = Append(interview_questions, new_rows[r.inserted + 1])
           /\ requests' = [requests EXCEPT
                 ![p].inserted = r.inserted + 1,
                 ![p].pc = IF r.inserted + 1 < Len(new_rows)
                           THEN "insert_question" ELSE "store_plan"]
    /\ UNCHANGED <<interviews, now, CARD_GENERATION_AVAILABLE, gen_calls, arg, ret>>

\* lines 157-168 and 94-100: UPDATE interviews SET status = 'active', feedback,
\* and the reply of start-interview
StartStorePlan(p) ==
    /\ requests[p].pc = "store_plan"
    /\ LET r == requests[p]
       IN  /\ interviews' = [interviews EXCEPT
                 ![r.interview_id].status = "active",
                 ![r.interview_id].feedback = FbJson(r.skills_metadata)]
           /\ requests' = [requests EXCEPT ![p] =
                 Done([op |-> "start",
                       status_code |-> 201,
                       interview_id |-> r.interview_id,
                       skills |-> r.skills,
                       questions_per_skill |-> r.questions_per_skill])]
    /\ UNCHANGED <<interview_questions, now, CARD_GENERATION_AVAILABLE, gen_calls, arg, ret>>

NextStart ==
    \/ \E p \in Procs, skills \in StartSkillInputs, questions_per_skill \in QuestionsPerSkill :
          \E replies \in ReplyPlans(Len(SplitSkills(skills))) :
             StartInsertInterview(p, skills, questions_per_skill, replies)
    \/ \E p \in Procs, interview_id \in DOMAIN interviews : StartSelectLatest(p, interview_id)
    \/ \E p \in Procs : StartInsertQuestion(p)
    \/ \E p \in Procs : StartStorePlan(p)
    \/ Tick

SpecStart == InitStart /\ [][NextStart]_vars

-----------------------------------------------------------------------------
(* Properties *)

\* C1: once a skill has a stored rating, a further submit-response to a question
\* of that skill never changes the star_rating stored for the skill.
C1_RatingComputedOnce ==
    [][(/\ ret'.op = "submit"
        /\ ret'.status_code = 200
        /\ ret'.interview_id \in DOMAIN interviews
        /\ ret'.skill_assessed \in
              DOMAIN Get(LoadFeedback(interviews[ret'.interview_id].feedback),
                         "skill_ratings", EmptyDoc))
       => LET skill == ret'.skill_assessed
              before == LoadFeedback(interviews[ret'.interview_id].feedback)["skill_ratings"]
              after == Get(LoadFeedback(interviews'[ret'.interview_id].feedback),
                           "skill_ratings", EmptyDoc)
          IN  /\ skill \in DOMAIN after
              /\ after[skill].star_rating = before[skill].star_rating]_vars

\* C2: once an interview's status is 'completed', no submit-response, get-questions
\* or get-results step sets it to another value.
C2_CompletionMonotonic ==
    [][\A interview_id \in DOMAIN interviews :
          (/\ interviews[interview_id].status = "completed"
           /\ ret'.op \in {"submit", "questions", "results"})
          => /\ interview_id \in DOMAIN interviews'
             /\ interviews'[interview_id].status = "completed"]_vars

\* C2 witness: a completed interview whose rated skill got one more submission
\* (the submission stored no new rating, the older one is still there).
C2_Witness ==
    /\ ret.op = "submit"
    /\ ret.status_code = 200
    /\ interviews[ret.interview_id].status = "completed"
    /\ ~ret.skill_rating_update.completed
    /\ ret.skill_assessed \in
          DOMAIN Get(LoadFeedback(interviews[ret.interview_id].feedback),
                     "skill_ratings", EmptyDoc)

\* C3: a results request that directly follows a results request on the same
\* interview (ratings present) returns the same card_generation value; stated
\* for a first request that reported the cards as generated.
C3_ResultsRepeatable ==
    [][(/\ ret.op = "results" /\ ret.status_code = 200
        /\ ret'.op = "results" /\ ret'.status_code = 200
        /\ ret'.interview_id = ret.interview_id
        /\ DOMAIN ret.skill_ratings # {}
        /\ "cards_generated" \in DOMAIN ret.card_generation[1]
        /\ ret.card_generation[1].cards_generated)
       => ret'.card_generation = ret.card_generation]_vars

\* C4: the card generator is invoked at most once per interview.
C4_GeneratorAtMostOnce ==
    \A interview_id \in DOMAIN gen_calls : gen_calls[interview_id] <= 1

\* C5: when the evaluation service answers with an error, the submit-response
\* stores a score in 1..10 that is the word-count heuristic of the response, and
\* the stored evaluation has its 'error' field.
C5_HeuristicOnError ==
    (/\ ret.op = "submit"
     /\ ret.status_code = 200
     /\ ret.llm_reply.kind = "error")
    => LET row == interview_questions[ret.question_id]
       IN  /\ row.score = Some(HeuristicScore(ret.response))
           /\ row.score[1] \in 1..10
           /\ "error" \in DOMAIN row.evaluation

\* C6: a submit-response on an interview whose plan was generated (status
\* 'active', or 'completed' by an earlier submission) leaves the status
\* 'completed' if every question of the interview has a response and 'active'
\* otherwise.
C6_CompletedIffAllAnswered ==
    [][(/\ ret'.op = "submit"
        /\ ret'.status_code = 200
        /\ ret'.interview_id \in DOMAIN interviews
        /\ interviews[ret'.interview_id].status \in {"active", "completed"})
       => LET all_answered ==
                  \A q \in DOMAIN interview_questions' :
                      interview_questions'[q].interview_id = ret'.interview_id
                      => interview_questions'[q].response # None
          IN  interviews'[ret'.interview_id].status =
                  (IF all_answered THEN "completed" ELSE "active")]_vars

\* C6 witness: the submission that answers the last open question of a plan of
\* at least two questions has just completed the interview.
C6_Witness ==
    /\ ret.op = "submit"
    /\ ret.status_code = 200
    /\ ret.interview_progress.total >= 2
    /\ interviews[ret.interview_id].feedback.type = "json"
    /\ interviews[ret.interview_id].status = "completed"
    /\ interviews[ret.interview_id].completed_at = Some(now)

\* C7: a submit-response reports skill_rating_update.completed and stores the
\* rating of the question's skill exactly when every question of the skill is
\* answered (and there is one); the stored average is the mean of the skill's
\* non-null scores and the stored stars the scoring policy of that mean;
\* otherwise no rating is written.
C7_RatingWhenSkillComplete ==
    [][(/\ ret'.op = "submit"
        /\ ret'.status_code = 200
        /\ ret'.interview_id \in DOMAIN interviews)
       => LET interview_id == ret'.interview_id
              skill == ret'.skill_assessed
              of_skill == {q \in DOMAIN interview_questions' :
                              /\ interview_questions'[q].interview_id = interview_id
                              /\ interview_questions'[q].question_type = skill}
              complete == /\ of_skill # {}
                          /\ \A q \in of_skill : interview_questions'[q].response # None
              scores == NonNullScores(RowsOfSkill(interview_questions', interview_id, skill))
              before == Get(LoadFeedback(interviews[interview_id].feedback),
                            "skill_ratings", EmptyDoc)
              after == Get(LoadFeedback(interviews'[interview_id].feedback),
                           "skill_ratings", EmptyDoc)
          IN  /\ ret'.skill_rating_update.completed = complete
              /\ (complete /\ scores # <<>>)
                 => /\ skill \in DOMAIN after
                    /\ after[skill].average_score = Frac(SumSeq(scores), Len(scores))
                    /\ after[skill].star_rating =
                          convert_score_to_stars(Frac(SumSeq(scores), Len(scores)))
              /\ ~complete => after = before]_vars

C9_GlobalOrderContiguous ==
    (ret.op = "start" /\ ret.status_code = 201 /\ ret.questions_per_skill >= 1)
    => LET interview_id == ret.interview_id
           questions == RowsOfInterview(interview_questions, interview_id)
           metadata == interviews[interview_id].feedback.doc
           skills == metadata.skills_assessed
       IN  /\ Len(questions) = metadata.total_questions
           /\ \A i \in 1..Len(questions) :
                 questions[i].evaluation.global_question_order = i
           /\ \A i, j, k \in 1..Len(questions) :
                 (i < j /\ j < k /\ questions[i].question_type = questions[k].question_type)
                 => questions[j].question_type = questions[i].question_type
           /\ \A i, j \in 1..Len(questions) :
                 (i < j /\ questions[i].question_type # questions[j].question_type)
                 => \E a, b \in 1..Len(skills) :
                       /\ a < b
                       /\ skills[a] = questions[i].question_type
                       /\ skills[b] = questions[j].question_type

\* C10: in the plan that start-interview has just persisted, every skill of
\* skill_question_map has end_index - start_index equal to its question_count and
\* to the number of stored questions of the skill; stated for the requests with
\* a positive questions_per_skill.
C10_BlockSizes ==
    (ret.op = "start" /\ ret.status_code = 201 /\ ret.questions_per_skill >= 1)
    => LET interview_id == ret.interview_id
           blocks == interviews[interview_id].feedback.doc.skill_question_map
       IN  \A skill \in DOMAIN blocks :
              /\ blocks[skill].end_index - blocks[skill].start_index
                    = blocks[skill].question_count
              /\ blocks[skill].end_index - blocks[skill].start_index
                    = Len(RowsOfSkill(interview_questions, interview_id, skill))


\* C11: the star rating of a score is 5 for score >= 9, 4 for 7 <= score < 9,
\* 3 for 5 <= score < 7, 2 for 3 <= score < 5 and 1 for score < 3, in the results
\* endpoint's mapping and in the question generator's, whatever the rest of the
\* state is.
C11_StarThresholds ==
    (ret.op = "convert_score_to_stars")
    => LET AtLeast(k) == arg.num >= k * arg.den
           expected == CHOOSE stars \in 1..5 :
                          /\ (stars = 5) = AtLeast(9)
                          /\ (stars = 4) = (AtLeast(7) /\ ~AtLeast(9))
                          /\ (stars = 3) = (AtLeast(5) /\ ~AtLeast(7))
                          /\ (stars = 2) = (AtLeast(3) /\ ~AtLeast(5))
                          /\ (stars = 1) = ~AtLeast(3)
       IN  /\ ret.value = expected
           /\ ret.generator_value = expected

\* a score exactly on a threshold has been mapped: 7 gives four stars
C11_Witness ==
    /\ ret.op = "convert_score_to_stars"
    /\ arg = Frac(7, 1)
    /\ ret.value = 4


\* C12: whatever the generation call answers (error reply, exception, text that
\* cannot be parsed, a payload that is no list, a list shorter or longer than
\* requested), generate_skill_specific_questions returns exactly the requested
\* number of entries, each one tagged with the requested skill; stated for a
\* requested number that is a count (>= 0).
C12_ExactlyNQuestions ==
    (ret.op = "generate_skill_specific_questions" /\ arg.questions_per_skill >= 0)
    => /\ Len(ret.value) = arg.questions_per_skill
       /\ \A i \in 1..Len(ret.value) : ret.value[i].skill = arg.skill

\* a list shorter than requested has been answered by the local templates
C12_Witness ==
    /\ ret.op = "generate_skill_specific_questions"
    /\ arg.reply = GenReplyList(MaxQPS - 1)
    /\ arg.questions_per_skill = MaxQPS
    /\ Len(ret.value) = MaxQPS


\* C13: when start-interview is given a skill string that is empty or only
\* whitespace, the persisted skill list is exactly ["general skills"] and the
\* stored plan has at least one question.
C13_GeneralSkillsFallback ==
    (/\ ret.op = "start"
     /\ ret.status_code = 201
     /\ ret.questions_per_skill >= 1
     /\ strip(ret.skills) = <<>>)
    => LET interview_id == ret.interview_id
       IN  /\ interviews[interview_id].feedback.doc.skills_assessed = <<GeneralSkills>>
           /\ RowsOfInterview(interview_questions, interview_id) # <<>>


\* C14: whatever the evaluation service replies, evaluate_response raises no
\* exception and returns a record that has score, strengths, weaknesses and
\* feedback.
C14_EvaluateNeverRaises ==
    (ret.op = "evaluate_response")
    => /\ ~ret.outcome.raised
       /\ {"score", "strengths", "weaknesses", "feedback"} \subseteq DOMAIN ret.outcome.value


\* C15: when get-results has answered with a card_generation result whose
\* cards_generated is false (generation not available, or the generation
\* raised), that result is the card_generation block of the interview metadata.
C15_UnavailablePersisted ==
    (/\ ret.op = "results"
     /\ ret.status_code = 200
     /\ ret.card_generation # None
     /\ "cards_generated" \in DOMAIN ret.card_generation[1]
     /\ ~ret.card_generation[1].cards_generated)
    => LET feedback_data == LoadFeedback(interviews[ret.interview_id].feedback)
       IN  /\ "card_generation" \in DOMAIN feedback_data
           /\ feedback_data["card_generation"] = ret.card_generation[1]


\* C16: when get-results answers for an interview that has questions and no skill
\* rating, the answer holds a card_generation result saying that no card was
\* generated, and the card generator has not been called for the interview.
C16_NoRatingsNotGenerated ==
    (/\ ret.op = "results"
     /\ ret.status_code = 200
     /\ RowsOfInterview(interview_questions, ret.interview_id) # <<>>
     /\ DOMAIN ret.skill_ratings = {})
    => /\ gen_calls[ret.interview_id] = 0
       /\ ret.card_generation # None
       /\ "cards_generated" \in DOMAIN ret.card_generation[1]
       /\ ~ret.card_generation[1].cards_generated


\* C17: every get-results answer for an existing interview, also one during which
\* the card generation raised or produced no card for any skill, is a normal
\* answer that holds the interview's skill ratings and the overall stars derived
\* from them.
C17_CardFailureContained ==
    (ret.op = "results" /\ ret.interview_id \in DOMAIN interviews)
    => /\ ret.status_code = 200
       /\ ret.skill_ratings =
              SkillRatings(interview_questions, ret.interview_id,
                           LoadFeedback(interviews[ret.interview_id].feedback))
       /\ ret.overall_stars = OverallStars(ret.skill_ratings)

\* get-results has answered with ratings although the card generation raised
C17_Witness ==
    /\ ret.op = "results"
    /\ ret.status_code = 200
    /\ DOMAIN ret.skill_ratings # {}
    /\ ret.overall_stars \in 1..5
    /\ ret.card_generation = Some(NotGenerated("Generation failed"))
    /\ gen_calls[ret.interview_id] > 0


\* C19: when get-results answers for an interview in which no skill has all of its
\* questions answered, the overall rating it reports is 1 star.
C19_NoCompleteSkillOneStar ==
    (/\ ret.op = "results"
     /\ ret.status_code = 200
     /\ LET rows == RowsOfInterview(interview_questions, ret.interview_id)
        IN  \A i \in 1..Len(rows) :
               LET skill_rows == RowsOfSkill(rows, ret.interview_id, rows[i].question_type)
               IN  Len(Answered(skill_rows)) < Len(skill_rows))
    => ret.overall_stars = 1


\* C20: a submit-response that names a question id of no stored question, and a
\* get-questions or get-results that names an interview id of no stored
\* interview, is answered with not-found (404) and changes no interview record
\* and no question row.
C20_NotFoundChangesNothing ==
    [][((/\ ret'.op = "submit"
         /\ ret'.question_id \notin DOMAIN interview_questions)
        \/ (/\ ret'.op \in {"questions", "results"}
            /\ ret'.interview_id \notin DOMAIN interviews))
       => /\ ret'.status_code = 404
          /\ interviews' = interviews
          /\ interview_questions' = interview_questions]_vars

\* a submit-response for an unknown question id has been refused while an
\* interview with questions is stored
C20_Witness ==
    /\ ret.op = "submit"
    /\ ret.status_code = 404
    /\ ret.question_id \notin DOMAIN interview_questions
    /\ interviews # <<>>
    /\ interview_questions # <<>>


\* C18: when two submit-response requests served at the same time have both
\* ended, each having found a different skill of the same interview complete and
\* rated it, the interview metadata holds a skill_ratings entry for both skills.
C18_BothRatingsStored ==
    \A p \in Procs, q \in Procs :
       (/\ p # q
        /\ requests[p].pc = "done"
        /\ requests[q].pc = "done"
        /\ requests[p].response.status_code = 200
        /\ requests[q].response.status_code = 200
        /\ requests[p].response.interview_id = requests[q].response.interview_id
        /\ requests[p].response.skill_assessed # requests[q].response.skill_assessed
        /\ requests[p].response.skill_rating_update.completed
        /\ requests[q].response.skill_rating_update.completed)
       => LET feedback_data ==
                  LoadFeedback(interviews[requests[p].response.interview_id].feedback)
              skill_ratings == Get(feedback_data, "skill_ratings", EmptyDoc)
          IN  {requests[p].response.skill_assessed,
               requests[q].response.skill_assessed} \subseteq DOMAIN skill_ratings


\* C21: when a store call of plan generation has raised (the first one, or one
\* after some questions were stored), the interview's status is 'error', its
\* feedback column holds the failure text instead of a plan, and start-interview
\* has answered its caller with a failure.
C21_PlanFailureRecorded ==
    (ret.op = "start" /\ arg.fail_at > 0)
    => /\ ret.status_code = 500
       /\ interviews[ret.interview_id].status = "error"
       /\ interviews[ret.interview_id].feedback = FbText

\* plan generation has failed after its first question was stored
C21_Witness ==
    /\ ret.op = "start"
    /\ arg.fail_at = 2
    /\ Len(interview_questions) = 1
    /\ interviews[ret.interview_id].status = "error"


\* C22: in the plan that start-interview has just persisted, no two entries of
\* skills_assessed have the same name after trimming and lower-casing, and every
\* stored question lies in the index range of exactly one block of
\* skill_question_map; stated for the requests with a positive questions_per_skill.
C22_SkillsDeduplicated ==
    (ret.op = "start" /\ ret.status_code = 201 /\ ret.questions_per_skill >= 1)
    => LET interview_id == ret.interview_id
           doc == interviews[interview_id].feedback.doc
           skills == doc.skills_assessed
           blocks == doc.skill_question_map
           questions == RowsOfInterview(interview_questions, interview_id)
       IN  /\ \A a \in 1..Len(skills), b \in 1..Len(skills) :
                 (a # b) => lower(strip(skills[a])) # lower(strip(skills[b]))
           /\ \A i \in 1..Len(questions) :
                 Cardinality({skill \in DOMAIN blocks :
                                 /\ blocks[skill].start_index < i
                                 /\ i <= blocks[skill].end_index}) = 1


\* C23: in the batch of questions that a start-interview has just planned and
\* stored, built from replies of the generation service or from the local
\* templates, the in-skill index of the questions counts 1..N within each skill
\* and starts again at 1 with the next skill; stated for a positive
\* questions_per_skill N.
C23_SkillIndexRestarts ==
    [][(ret'.op = "start" /\ ret'.status_code = 201 /\ ret'.questions_per_skill >= 1)
       => LET planned == SubSeq(interview_questions', Len(interview_questions) + 1,
                                Len(interview_questions'))
              N == ret'.questions_per_skill
          IN  /\ Len(planned) = N * Len(SplitSkills(ret'.skills))
              /\ \A g \in 1..Len(planned) :
                    planned[g].evaluation.skill_index = ((g - 1) % N) + 1]_vars

\* a plan of two skills with MaxQPS questions each has been stored from the
\* replies of the generation service: the first question of the second skill
\* has index 1
C23_Witness ==
    /\ ret.op = "start"
    /\ ret.status_code = 201
    /\ ret.questions_per_skill = MaxQPS
    /\ arg.replies = <<GenReplyList(MaxQPS + 1), GenReplyList(MaxQPS + 1)>>
    /\ Len(interview_questions) = 2 * MaxQPS
    /\ interview_questions[MaxQPS + 1].evaluation.skill_index = 1
    /\ interview_questions[MaxQPS].question_type # interview_questions[MaxQPS + 1].question_type


\* C24: for every score, convert_score_to_stars and the rating calculator's
\* _convert_score_to_stars give the same star, and _determine_proficiency_level
\* gives Expert, Advanced, Intermediate, Beginner, Novice where they give
\* 5, 4, 3, 2, 1.
C24_StarFunctionsAgree ==
    (ret.op = "convert_score_to_stars")
    => LET LevelOfStars == [stars \in 1..5 |->
                               CASE stars = 5 -> "Expert"
                                 [] stars = 4 -> "Advanced"
                                 [] stars = 3 -> "Intermediate"
                                 [] stars = 2 -> "Beginner"
                                 [] OTHER -> "Novice"]
       IN  /\ ret.value = ret.generator_value
           /\ ret.proficiency_level = LevelOfStars[ret.value]
           /\ ret.proficiency_level = LevelOfStars[ret.generator_value]

\* a score between two thresholds has been mapped by the three functions: 7.5
\* gives four stars and Advanced
C24_Witness ==
    /\ ret.op = "convert_score_to_stars"
    /\ arg = Frac(15, 2)
    /\ ret.value = 4
    /\ ret.generator_value = 4
    /\ ret.proficiency_level = "Advanced"


\* C25: a submit-response to a question of an interview that is already
\* completed leaves the interview's completed_at as it was.
C25_CompletedAtStampedOnce ==
    [][(/\ ret'.op = "submit"
        /\ ret'.status_code = 200
        /\ ret'.interview_id \in DOMAIN interviews
        /\ interviews[ret'.interview_id].status = "completed")
       => interviews'[ret'.interview_id].completed_at
             = interviews[ret'.interview_id].completed_at]_vars


\* C26: when get-results has generated cards, every rated skill is in exactly one
\* of generated_cards and failed_cards of the stored result, and success_count +
\* failure_count, in the answer and in the stored result, is the number of rated
\* skills; in a stored result returned by a later request the two lists are
\* disjoint and the counts are those of the lists and add up to total_skills.
C26_CardsPartitionSkills ==
    (ret.op = "results" /\ ret.status_code = 200 /\ ret.card_generation # None)
    => LET info == ret.card_generation[1]
           Skills(cards) == {card.skill : card \in cards}
           Partitioned(results, rated) ==
               /\ Skills(results.generated_cards) \cup Skills(results.failed_cards) = rated
               /\ Skills(results.generated_cards) \cap Skills(results.failed_cards) = {}
               /\ results.success_count = Cardinality(results.generated_cards)
               /\ results.failure_count = Cardinality(results.failed_cards)
               /\ results.success_count + results.failure_count = Cardinality(rated)
               /\ results.total_skills = Cardinality(rated)
       IN  /\ "success_count" \in DOMAIN info
               => /\ info.success_count + info.failure_count
                        = Cardinality(DOMAIN ret.skill_ratings)
                  /\ Partitioned(
                        LoadFeedback(interviews[ret.interview_id].feedback)
                            ["card_generation"].results,
                        DOMAIN ret.skill_ratings)
           /\ "results" \in DOMAIN info
               => Partitioned(info.results,
                              Skills(info.results.generated_cards)
                                  \cup Skills(info.results.failed_cards))

\* cards have been generated for two rated skills, one with a card file found
\* and one without
C26_Witness ==
    /\ ret.op = "results"
    /\ ret.status_code = 200
    /\ ret.card_generation # None
    /\ "success_count" \in DOMAIN ret.card_generation[1]
    /\ ret.card_generation[1].success_count = 1
    /\ ret.card_generation[1].failure_count = 1


\* C27: in every reachable state, the score stored on a question that has been
\* submitted and evaluated is a number from 1 to 10, whatever the evaluation
\* service answered.
C27_StoredScoreInRange ==
    \A question_id \in DOMAIN interview_questions :
        interview_questions[question_id].response # None
        => /\ interview_questions[question_id].score # None
           /\ interview_questions[question_id].score[1] \in 1..10


\* C28: when the reply of the evaluation service parses as a JSON object, directly
\* or from a fenced block, and lacks some of score, strengths, weaknesses and
\* feedback, evaluate_response returns the object with each missing field set to
\* its default (score 5, empty lists, the generic feedback), every field that was
\* present unchanged, and no error field.
C28_MissingFieldsDefaulted ==
    (/\ ret.op = "evaluate_response"
     /\ arg.llm_reply.kind \in {"object", "fenced_object"}
     /\ ~({"score", "strengths", "weaknesses", "feedback"}
             \subseteq DOMAIN arg.llm_reply.fields))
    => LET fields == arg.llm_reply.fields
           required == {"score", "strengths", "weaknesses", "feedback"}
           defaults == [score |-> Some(5),
                        strengths |-> "[]",
                        weaknesses |-> "[]",
                        feedback |-> "No detailed feedback available."]
       IN  /\ ~ret.outcome.raised
           /\ DOMAIN ret.outcome.value = DOMAIN fields \cup required
           /\ \A k \in DOMAIN fields : ret.outcome.value[k] = fields[k]
           /\ \A k \in required \ DOMAIN fields : ret.outcome.value[k] = defaults[k]
           /\ "error" \notin DOMAIN ret.outcome.value

\* C28 witness: a fenced object holding only a null score and the strengths has
\* been evaluated; the score is still null, weaknesses and feedback are defaults
C28_Witness ==
    /\ ret.op = "evaluate_response"
    /\ arg.llm_reply.kind = "fenced_object"
    /\ DOMAIN arg.llm_reply.fields = {"score", "strengths"}
    /\ arg.llm_reply.fields.score = None
    /\ ~ret.outcome.raised
    /\ ret.outcome.value.score = None
    /\ ret.outcome.value.strengths = "llm"
    /\ ret.outcome.value.weaknesses = "[]"
    /\ ret.outcome.value.feedback = "No detailed feedback available."


\* C29: when the reply of the evaluation service is neither a JSON document nor
\* holds a parseable fenced block, evaluate_response returns the heuristic result
\* for the word count of the candidate's response (2, 4, 6, 7 or 8), with the
\* error field set and the raw_llm_response field present.
C29_HeuristicWhenUnparseable ==
    (/\ ret.op = "evaluate_response"
     /\ arg.llm_reply.kind = "unparseable")
    => /\ ~ret.outcome.raised
       /\ ret.outcome.value.score = Some(HeuristicScore(arg.words))
       /\ "error" \in DOMAIN ret.outcome.value
       /\ "raw_llm_response" \in DOMAIN ret.outcome.value


\* C30: for every interview whose questions are all answered, the star rating
\* stored for a skill by the submissions equals the star rating that get-results
\* computes on the fly for that skill from the scores of the question rows.
C30_StoredRatingMatchesRecomputed ==
    \A interview_id \in DOMAIN interviews :
        LET rows == RowsOfInterview(interview_questions, interview_id)
            stored == StoredStarRatings(LoadFeedback(interviews[interview_id].feedback))
            recomputed == OnTheFlyStarRatings(interview_questions, interview_id)
        IN  (rows # <<>> /\ Answered(rows) = rows)
            => \A skill \in DOMAIN stored :
                  /\ skill \in DOMAIN recomputed
                  /\ stored[skill] = recomputed[skill]


\* C31: for the same per-skill average scores, the overall_stars of get-results
\* (the rounded mean of the per-skill stars) equals the overall star_rating of
\* calculate_individual_skill_ratings, and both are in 1..5.
C31_OverallStarsAgree ==
    (ret.op = "overall_rating")
    => /\ ret.overall_stars = ret.overall_rating.star_rating
       /\ ret.overall_stars \in 1..5
       /\ ret.overall_rating.star_rating \in 1..5


\* C32: the skill_ratings map that get-results returns holds a skill only if every
\* question of that skill in the interview has a response.
C32_RatedSkillsFullyAnswered ==
    (ret.op = "results" /\ ret.status_code = 200)
    => \A skill \in DOMAIN ret.skill_ratings :
          LET rows == RowsOfSkill(interview_questions, ret.interview_id, skill)
          IN  Answered(rows) = rows


\* C33: once the feedback document of an interview holds a card_generation block,
\* every step of a get-results or submit-response request on the interview leaves
\* the block in the document, unchanged.
C33_CardBlockKept ==
    [][\A interview_id \in DOMAIN interviews :
          LET before == LoadFeedback(interviews[interview_id].feedback)
              after == LoadFeedback(interviews'[interview_id].feedback)
          IN  "card_generation" \in DOMAIN before
              => /\ "card_generation" \in DOMAIN after
                 /\ after["card_generation"] = before["card_generation"]]_vars


\* C34: in every reachable state, the questions_completed of each skill block in
\* the skill_question_map of an interview equals the number of questions of that
\* skill that have a response.
C34_QuestionsCompletedCounted ==
    \A interview_id \in DOMAIN interviews :
        LET feedback_data == LoadFeedback(interviews[interview_id].feedback)
            blocks == Get(feedback_data, "skill_question_map", EmptyDoc)
        IN  \A skill \in DOMAIN blocks :
               blocks[skill].questions_completed =
                   Len(Answered(RowsOfSkill(interview_questions, interview_id, skill)))


\* C35: the status of an interview changes only from pending to active, from
\* pending to error, or from active to completed; error and completed are final.
C35_StatusTransitions ==
    [][\A interview_id \in DOMAIN interviews :
          interviews'[interview_id].status # interviews[interview_id].status
          => <<interviews[interview_id].status, interviews'[interview_id].status>>
                \in {<<"pending", "active">>, <<"pending", "error">>,
                     <<"active", "completed">>}]_vars


\* C36: a get-results request during which the card generation was interrupted by
\* a failure after the generator ran (the read or the write of lines 582-604 that
\* persists the result among them) does not answer its caller with a normal reply.
C36_StoreFailurePropagated ==
    (/\ ret.op = "results"
     /\ "card_generation" \in DOMAIN ret
     /\ ret.card_generation = Some(NotGenerated("Generation failed")))
    => ret.status_code # 200


\* C37: when the requests served at the same time on an interview are all
\* get-results requests, the card generator is invoked at most once for the
\* interview.
C37_ConcurrentResultsGenerateOnce ==
    (\A p \in Procs :
        \/ requests[p].pc \in {"idle", "select_scores", "cards", "store_cards"}
        \/ requests[p].pc = "done" /\ requests[p].response.op = "results")
    => \A interview_id \in DOMAIN gen_calls : gen_calls[interview_id] <= 1


\* C38: when the submit-response requests served at the same time on an active
\* interview have all finished and every question of the interview has a
\* response, the status of the interview is 'completed'.
C38_ConcurrentSubmitsComplete ==
    \A interview_id \in DOMAIN interviews :
        LET rows == RowsOfInterview(interview_questions, interview_id)
        IN  (/\ \A p \in Procs : requests[p].pc \in {"idle", "done"}
             /\ rows # <<>>
             /\ Answered(rows) = rows)
            => interviews[interview_id].status = "completed"

\* C38 witness: two requests that answered the two questions of an interview have
\* finished, each having counted both questions as answered, and the interview
\* is completed
C38_Witness ==
    /\ Len(interview_questions) = 2
    /\ requests[1].pc = "done"
    /\ requests[2].pc = "done"
    /\ requests[1].response.status_code = 200
    /\ requests[2].response.status_code = 200
    /\ requests[1].response.question_id # requests[2].response.question_id
    /\ requests[1].response.interview_progress.completed
    /\ requests[2].response.interview_progress.completed
    /\ interviews[1].status = "completed"


\* C39: when submit-response requests served at the same time on different
\* questions of one skill have all finished and every question of the skill is
\* answered, the average_score stored for the skill is the mean of the scores of
\* all the questions of the skill.
C39_ConcurrentAverageIsMean ==
    \A p, q \in Procs :
        (/\ p # q
         /\ \A w \in Procs : requests[w].pc \in {"idle", "done"}
         /\ requests[p].pc = "done"
         /\ requests[q].pc = "done"
         /\ requests[p].response.status_code = 200
         /\ requests[q].response.status_code = 200
         /\ requests[p].response.question_id # requests[q].response.question_id
         /\ requests[p].response.skill_assessed = requests[q].response.skill_assessed)
        => LET interview_id == requests[p].response.interview_id
               skill == requests[p].response.skill_assessed
               stored == Get(LoadFeedback(interviews[interview_id].feedback),
                             "skill_ratings", EmptyDoc)
               rows == RowsOfSkill(interview_questions, interview_id, skill)
               scores == ScoresOrZero(rows)
           IN  Answered(rows) = rows
               => /\ skill \in DOMAIN stored
                  /\ stored[skill].average_score = Frac(SumSeq(scores), Len(scores))


\* C40: when the start-interview requests served at the same time have all
\* finished, their replies name different interviews, no interview is left
\* 'pending' without questions, and every interview that has a plan holds the
\* questions of that plan and no others.
C40_ConcurrentStartsKeepOwnRecord ==
    (\A p \in Procs : requests[p].pc = "done")
    => /\ \A p, q \in Procs :
             p # q => requests[p].response.interview_id # requests[q].response.interview_id
       /\ \A interview_id \in DOMAIN interviews :
             LET rows == RowsOfInterview(interview_questions, interview_id)
                 feedback_data == LoadFeedback(interviews[interview_id].feedback)
             IN  /\ ~(interviews[interview_id].status = "pending" /\ rows = <<>>)
                 /\ "total_questions" \in DOMAIN feedback_data
                    => Len(rows) = feedback_data["total_questions"]

====
